---------------------------- MODULE Spec2Model ----------------------------
(***************************************************************************)
(* A model of the ext2 driver core (src/src/core.cc, ext2++/core.hh):      *)
(* mounting and unmounting a volume, the superblock that is written back,  *)
(* path resolution, inode data reads and directory enumeration.            *)
(*                                                                         *)
(* The device is a byte-addressable image file.  A device offset is a      *)
(* natural number; the image's metadata (superblock, descriptor table,     *)
(* inode table) and its data blocks are decoded from the bytes the code    *)
(* reads, at the offsets the code computes.                                *)
(***************************************************************************)
EXTENDS Integers, Sequences, FiniteSets, TLC

VARIABLES
    devLen,      \* length of the image file in bytes
    diskSb,      \* the superblock stored at SUPERBLOCK_OFFSET (fields the core reads or writes)
    diskAtime,   \* i_atime of every inode, as stored in the inode table
    clock,       \* std::chrono::system_clock::now(), in seconds
    fd,          \* the descriptor the caller has open on the image, or NoFd
    drive,       \* the Drive object (FileHandle, Sb), or NoDrive
    held,        \* the caller still holds the shared_ptr<Drive> TryMount returned
    dir,         \* the Dir the caller holds (main.cc: one Dir), or NoDir
    iter,        \* the Dir::Iterator the caller runs over dir, or NoIter
    last,        \* what the last public call did and returned
    hist,        \* bookkeeping of the run (counts of mounts, writes, failures)
    image,       \* the file system stored in the image: inodes and directory blocks
    call,        \* path-resolution runs: the arguments and results of the last call
    walk         \* directory-enumeration runs: the names yielded so far

vars == << devLen, diskSb, diskAtime, clock, fd, drive, held, dir, iter,
           last, hist, image, call, walk >>

-----------------------------------------------------------------------------
(* Bounds of the model.                                                    *)

\* Largest clock value; Tick stops there.
MaxClock == 2
\* Largest number of successful mounts in one run.
MaxMounts == 2
\* Longest path resolved (SpecPath); the path appended to it in a joined
\* resolution is one byte shorter.
MaxPathLen == 3
\* Most entries in an enumerated directory (SpecDir).
MaxEntries == 3

-----------------------------------------------------------------------------
(* Program constants.                                                      *)

SUPERBLOCK_OFFSET == 1024
EXT2_SUPER_MAGIC == 61267          \* 0xEF53
DIRECT_BLOCK_COUNT == 12
INDIRECT_BLOCK_INDEX == 12
DOUBLY_INDIRECT_BLOCK_INDEX == 13
TRIPLY_INDIRECT_BLOCK_INDEX == 14
ROOT_INODE_NUMBER == 2
MAX_PATH == 255

\* sizeof(Superblock), sizeof(Inode), sizeof(LinkedDirEntryHeader),
\* sizeof(BlockGroupDescriptor)
SizeofSuperblock == 1024
SizeofInode == 128
SizeofHdr == 8
SizeofDescriptor == 32

\* enum FsState
Valid == 1
HasErrors == 2
\* enum RevisionLevel
GoodOldRev == 0
DynamicRev == 1

\* Inode::FileFormat and Inode::FileFormatMask (i_mode >> 12 is the format nibble)
FmtSocket == 49152
FmtSymbolicLink == 40960
FmtRegularFile == 32768
FmtBlockDevice == 24576
FmtDirectory == 16384
FmtCharacterDevice == 8192
FmtFifo == 4096
FmtUnknown == 0

\* Byte offsets of the superblock fields the model carries, in struct Superblock.
OffMtime == 44
OffMntCount == 52
OffMagic == 56
OffState == 58
OffRevLevel == 76
OffFeatureCompat == 92
OffFeatureIncompat == 96
OffFeatureRoCompat == 100

\* Widths of the unsigned types: u16 values are taken modulo U16, and a u32
\* value is two u16 halves.
U16 == 65536
ToU16(x) == x % U16
ToU32(x) == (x % U16) + U16 * ((x \div U16) % U16)

Min(a, b) == IF a < b THEN a ELSE b
Max(a, b) == IF a > b THEN a ELSE b

NoFd == -1
NoDrive == [none |-> TRUE]
NoDir == [none |-> TRUE]
NoIter == [none |-> TRUE]


-----------------------------------------------------------------------------
(* Superblock (the fields the core reads or writes) and its helpers.       *)

\* Superblock::block_size(): 1024u << s_log_block_size, a u32
block_size(Sb) == ToU32(1024 * (2 ^ Sb.s_log_block_size))

-----------------------------------------------------------------------------
(* The device: an image file of dev.len bytes.  dev.bad is the set of      *)
(* blocks of 1024 bytes whose read(2) ends in EIO.                         *)

\* The bytes a request of Size bytes at Offs can get before the end of file.
Avail(dev, Offs, Size) == Max(0, Min(Size, dev.len - Offs))

\* An I/O error inside the requested range.
IoError(dev, Offs, Size) ==
    \E b \in dev.bad : b * 1024 < Offs + Max(Size, 1) /\ Offs < (b + 1) * 1024

\* ReadReentrant: the loop ends at end of file (read returns 0) with the
\* count still to read, and otherwise with the count asked for; -1 on error.
ReadReentrant(dev, Offs, Size) ==
    IF Size > 0 /\ IoError(dev, Offs, Size) THEN -1
    ELSE IF Avail(dev, Offs, Size) = Size THEN Size
    ELSE Size - Avail(dev, Offs, Size)

\* A local variable: v is the value it is initialised with and Op the code
\* that follows its declaration.
Bind(v, Op(_)) == Op(v)

\* Read: ok when ReadReentrant's count equals Size; n is the number of bytes
\* of the destination that were filled (the rest keeps its old content).
Read(dev, Offs, Size) ==
    Bind(ReadReentrant(dev, Offs, Size), LAMBDA BytesRead :
    [ ok |-> BytesRead >= 0 /\ BytesRead = Size,
      n  |-> IF BytesRead < 0 THEN 0 ELSE Avail(dev, Offs, Size) ])

\* One byte of the image.  Blocks the image does not describe hold zeros.
ByteAt(dev, addr) ==
    LET b == addr \div 1024
        o == addr % 1024
    IN  IF b \in DOMAIN dev.img.blocks /\ o < Len(dev.img.blocks[b])
        THEN dev.img.blocks[b][o + 1]
        ELSE 0

\* Little-endian integers of the image.
U16At(dev, addr) == ByteAt(dev, addr) + 256 * ByteAt(dev, addr + 1)
U32At(dev, addr) == U16At(dev, addr) + 65536 * U16At(dev, addr + 2)

\* The inode record stored at a device offset: the inode table holds inode n
\* at bg_inode_table * block_size + local index * s_inode_size; any other
\* offset holds no inode, and decodes to a record of zeros.
ZeroInode == [ i_mode |-> 0, i_size |-> 0, i_atime |-> 0,
               i_block |-> [k \in 1..15 |-> 0] ]

InodeTableOffset(dev, n) ==
    dev.img.bgdt[(n - 1) \div dev.sb.s_inodes_per_group].bg_inode_table
        * block_size(dev.sb)
    + ((n - 1) % dev.sb.s_inodes_per_group) * dev.sb.s_inode_size

InodeAt(dev, off) ==
    Bind({ n \in DOMAIN dev.img.inodes : InodeTableOffset(dev, n) = off }, LAMBDA ns :
    IF ns = {} THEN ZeroInode ELSE
    Bind(CHOOSE n \in ns : TRUE, LAMBDA n :
    [ i_mode  |-> dev.img.inodes[n].i_mode,
      i_size  |-> dev.img.inodes[n].i_size,
      i_atime |-> dev.atime[n],
      i_block |-> dev.img.inodes[n].i_block ]))

\* Inode::Is
Is(I, FF) == (I.i_mode \div 4096) * 4096 = FF

-----------------------------------------------------------------------------
(* Drive: inodes and other tables.  d is the mounted drive seen from its   *)
(* methods: d.dev the device behind FileHandle, d.Sb the superblock kept   *)
(* in memory.  Every result carries io, the number of Read calls it made.  *)

\* Drive::ReadDescriptorTable.  Table is not initialised: bytes Read did not
\* fill are whatever the stack held (dev.img.garbage).
ReadDescriptorTable(d, BlockGroupIndex) ==
    Bind(Read(d.dev,
              SUPERBLOCK_OFFSET + block_size(d.Sb) + BlockGroupIndex * SizeofDescriptor,
              SizeofDescriptor), LAMBDA r :
    [ ok |-> r.ok,
      bg_inode_table |->
          IF r.n < SizeofDescriptor THEN d.dev.img.garbage.u32
          ELSE IF BlockGroupIndex \in DOMAIN d.dev.img.bgdt
               THEN d.dev.img.bgdt[BlockGroupIndex].bg_inode_table
               ELSE 0,
      io |-> 1 ])

\* a * b + c at full width, for u32 a and c and b up to 2^15, as the two
\* parts hi and lo of hi * 2^16 + lo (lo below 2^16); and the u32 it is
\* truncated to when it is stored in one.
WideMulAdd(a, b, c) ==
    [ hi |-> (a \div U16) * b + (c \div U16) + (((a % U16) * b + (c % U16)) \div U16),
      lo |-> ((a % U16) * b + (c % U16)) % U16 ]

LowU32(w) == (w.hi % U16) * U16 + w.lo

\* Drive::ComputeInodeOffset.  Offset is a u32.
ComputeInodeOffset(d, InodeNumber) ==
    IF InodeNumber = 0 \/ InodeNumber > d.Sb.s_inodes_count
    THEN [ ok |-> FALSE, Offset |-> 0, io |-> 0 ] ELSE
    Bind((InodeNumber - 1) \div d.Sb.s_inodes_per_group, LAMBDA BlockGroup :
    Bind((InodeNumber - 1) % d.Sb.s_inodes_per_group, LAMBDA LocalIndex :
    Bind(ReadDescriptorTable(d, BlockGroup), LAMBDA dt :
    IF ~dt.ok THEN [ ok |-> FALSE, Offset |-> 0, io |-> dt.io ]
    ELSE [ ok |-> TRUE,
           Offset |-> LowU32(WideMulAdd(dt.bg_inode_table, block_size(d.Sb),
                                        ToU32(LocalIndex * d.Sb.s_inode_size))),
           io |-> dt.io ])))

\* Drive::ReadInode.  Inode is not initialised either.
ReadInode(d, InodeNumber) ==
    Bind(ComputeInodeOffset(d, InodeNumber), LAMBDA Offset :
    IF ~Offset.ok THEN [ ok |-> FALSE, I |-> ZeroInode, io |-> Offset.io ] ELSE
    Bind(Read(d.dev, Offset.Offset, SizeofInode), LAMBDA r :
    [ ok |-> r.ok,
      I  |-> IF r.n < SizeofInode THEN d.dev.img.garbage.inode
             ELSE InodeAt(d.dev, Offset.Offset),
      io |-> Offset.io + 1 ]))

-----------------------------------------------------------------------------
(* Drive::ReadInodeData.  The result lists the device ranges read into the *)
(* buffer, in buffer order: segs[i] = [addr, len, n], n the bytes filled.  *)

\* A block-sized std::vector<u8>: zeros, or the block read from device
\* offset `at`.
ZeroBuf == [ z |-> TRUE, at |-> 0 ]

\* IndirectBlockCount
PointersPerBlock(d) == block_size(d.Sb) \div 4

\* A variant of PtrAt (below) that reads the entry after the one asked for.
PtrAtFollowing(d, buf, idx) ==
    IF idx + 1 >= PointersPerBlock(d) THEN d.dev.img.garbage.u32
    ELSE IF buf.z THEN 0
    ELSE U32At(d.dev, buf.at + 4 * (idx + 1))

\* reinterpret_cast<u32*>(Block.data())[idx]; past the vector's end the value
\* is whatever the heap holds.
PtrAt(d, buf, idx) ==
    IF idx >= PointersPerBlock(d) THEN d.dev.img.garbage.u32
    ELSE IF buf.z THEN 0
    ELSE U32At(d.dev, buf.at + 4 * idx)

\* Read(FileHandle, ptr * block_size, Block.data(), Block.size()) into a
\* vector: the product is a u32.
LoadBlock(d, buf, ptr) ==
    Bind(ToU32(ptr * block_size(d.Sb)), LAMBDA at :
    Bind(Read(d.dev, at, block_size(d.Sb)), LAMBDA r :
    [ ok  |-> r.ok,
      buf |-> IF r.ok /\ r.n = block_size(d.Sb) THEN [ z |-> FALSE, at |-> at ]
              ELSE buf ]))

\* The four nth_block_number lambdas.  c holds the vectors the lambda
\* captured: c.ind (IndirectBlock), c.dbl (DoublyIndirectBlock), c.tri.
NthBlockNumber(d, I, mode, n, c) ==
    Bind(PointersPerBlock(d), LAMBDA P :
    Bind(n - DIRECT_BLOCK_COUNT, LAMBDA k :
    CASE mode = "direct" ->
           [ ok |-> TRUE, out |-> I.i_block[n + 1], c |-> c, io |-> 0 ]
      [] mode = "indirect" ->
           [ ok |-> TRUE, out |-> PtrAt(d, c.ind, k), c |-> c, io |-> 0 ]
      [] mode = "doubly" ->
           IF k % P = 0
           THEN Bind(LoadBlock(d, c.ind, PtrAt(d, c.dbl, k \div P)), LAMBDA l :
                [ ok |-> l.ok, out |-> PtrAt(d, l.buf, k % P),
                  c |-> [c EXCEPT !.ind = l.buf], io |-> 1 ])
           ELSE [ ok |-> TRUE, out |-> PtrAt(d, c.ind, k % P), c |-> c, io |-> 0 ]
      [] OTHER ->
           Bind(IF k % (P * P) = 0
                THEN LoadBlock(d, c.dbl, PtrAt(d, c.tri, k \div (P * P)))
                ELSE [ ok |-> TRUE, buf |-> c.dbl ], LAMBDA l2 :
           IF ~l2.ok THEN [ ok |-> FALSE, out |-> 0, c |-> c, io |-> 1 ] ELSE
           Bind(IF k % P = 0
                THEN LoadBlock(d, c.ind, PtrAt(d, l2.buf, k \div P))
                ELSE [ ok |-> TRUE, buf |-> c.ind ], LAMBDA l1 :
           [ ok |-> l1.ok, out |-> PtrAt(d, l1.buf, k % P),
             c |-> [c EXCEPT !.dbl = l2.buf, !.ind = l1.buf],
             io |-> (IF k % (P * P) = 0 THEN 1 ELSE 0)
                    + (IF k % P = 0 THEN 1 ELSE 0) ]))))

\* The while loop of read_loop: every iteration reads from the BlockNumber
\* fetched before the loop.
RECURSIVE ReadOtherBlocks(_, _, _, _)
ReadOtherBlocks(d, BlockNumber, limit, s) ==
    IF ~(s.BlockIndex < limit /\ s.Size > 0) THEN s ELSE
    Bind(Min(s.Size, block_size(d.Sb)), LAMBDA ToRead :
    Bind(BlockNumber * block_size(d.Sb), LAMBDA addr :
    Bind(Read(d.dev, addr, ToRead), LAMBDA r :
    IF ~r.ok THEN [s EXCEPT !.res = "Error", !.io = @ + 1]
    ELSE ReadOtherBlocks(d, BlockNumber, limit,
             [s EXCEPT !.BlockIndex = @ + 1,
                       !.Size = @ - ToRead,
                       !.segs = Append(@, [addr |-> addr, len |-> ToRead, n |-> r.n]),
                       !.io = @ + 1]))))

\* read_loop(nth_block_number, limit).  s carries BlockIndex, BlockOffset,
\* Size, the buffer position (segs) and the captured vectors.
read_loop(d, I, mode, limit, s) ==
    Bind(block_size(d.Sb), LAMBDA bs :
    Bind(Min(s.Size, bs - s.BlockOffset), LAMBDA ToRead :
    Bind(NthBlockNumber(d, I, mode, s.BlockIndex, s.c), LAMBDA n1 :
    IF ~n1.ok THEN [s EXCEPT !.res = "Error", !.io = @ + n1.io] ELSE
    Bind(n1.out * bs + s.BlockOffset, LAMBDA addr :
    Bind(Read(d.dev, addr, ToRead), LAMBDA r :
    IF ~r.ok THEN [s EXCEPT !.res = "Error", !.io = @ + n1.io + 1] ELSE
    Bind([s EXCEPT !.c = n1.c, !.io = @ + n1.io + 1,
                   !.segs = Append(@, [addr |-> addr, len |-> ToRead, n |-> r.n])],
         LAMBDA s1 :
    IF ToRead = s.Size THEN [s1 EXCEPT !.res = "Done", !.Size = 0] ELSE
    \* BlockNumber is computed once more, and the while loop reads with it.
    Bind(NthBlockNumber(d, I, mode, s.BlockIndex + 1, n1.c), LAMBDA n2 :
    Bind([s1 EXCEPT !.BlockIndex = @ + 1, !.Size = @ - ToRead,
                    !.c = n2.c, !.io = @ + n2.io], LAMBDA s2 :
    IF ~n2.ok THEN [s2 EXCEPT !.res = "Error"] ELSE
    Bind(ReadOtherBlocks(d, n2.out, limit, s2), LAMBDA s3 :
    IF s3.res = "Error" THEN s3
    ELSE IF s3.Size = 0 THEN [s3 EXCEPT !.res = "Done"]
    ELSE [s3 EXCEPT !.res = "Continue", !.BlockOffset = 0])))))))))

\* One of the four sections of ReadInodeData: skipped when BlockIndex is
\* past `limit` (the last section has no such test), else the section's
\* block of pointers is read and read_loop runs.
Section(d, I, mode, limit, always, s) ==
    IF s.res # "Continue" THEN s
    ELSE IF ~always /\ ~(s.BlockIndex < limit) THEN s
    ELSE IF mode = "direct" THEN read_loop(d, I, mode, limit, s) ELSE
    Bind(CASE mode = "indirect" -> INDIRECT_BLOCK_INDEX
           [] mode = "doubly"   -> DOUBLY_INDIRECT_BLOCK_INDEX
           [] OTHER             -> TRIPLY_INDIRECT_BLOCK_INDEX, LAMBDA slot :
    Bind(LoadBlock(d, ZeroBuf, I.i_block[slot + 1]), LAMBDA l :
    IF ~l.ok THEN [s EXCEPT !.res = "Error", !.io = @ + 1] ELSE
    Bind(CASE mode = "indirect" -> [ ind |-> l.buf,   dbl |-> ZeroBuf, tri |-> ZeroBuf ]
           [] mode = "doubly"   -> [ ind |-> ZeroBuf, dbl |-> l.buf,   tri |-> ZeroBuf ]
           [] OTHER             -> [ ind |-> ZeroBuf, dbl |-> ZeroBuf, tri |-> l.buf ],
         LAMBDA c :
    read_loop(d, I, mode, limit, [s EXCEPT !.c = c, !.io = @ + 1]))))

\* The body of ReadInodeData from the point where BlockIndex and BlockOffset
\* are known (a usz offset is BlockIndex * block_size + BlockOffset).
ReadInodeDataAt(d, I, BlockIndex, BlockOffset, Size) ==
    Bind(PointersPerBlock(d), LAMBDA P :
    Bind([ BlockIndex |-> BlockIndex, BlockOffset |-> BlockOffset,
           Size |-> Size, segs |-> << >>, io |-> 0, res |-> "Continue",
           c |-> [ ind |-> ZeroBuf, dbl |-> ZeroBuf, tri |-> ZeroBuf ] ], LAMBDA s0 :
    Bind(Section(d, I, "direct", DIRECT_BLOCK_COUNT, FALSE, s0), LAMBDA s1 :
    Bind(Section(d, I, "indirect", DIRECT_BLOCK_COUNT + P, FALSE, s1), LAMBDA s2 :
    Bind(Section(d, I, "doubly", DIRECT_BLOCK_COUNT + P + P * P, FALSE, s2), LAMBDA s3 :
    Bind(Section(d, I, "triply", DIRECT_BLOCK_COUNT + P + P * P + P * P * P, TRUE, s3),
         LAMBDA s4 :
    [ ok |-> s4.res = "Done", segs |-> s4.segs, io |-> s4.io ]))))))

ReadInodeData(d, I, Offset, Size) ==
    ReadInodeDataAt(d, I, Offset \div block_size(d.Sb), Offset % block_size(d.Sb), Size)

\* The bytes a buffer holds after ReadInodeData: Old is its content before
\* the call; each range read overwrites the bytes it filled.
RECURSIVE Fill(_, _, _, _)
Fill(dev, Old, segs, pos) ==
    IF segs = << >> THEN Old
    ELSE LET g == Head(segs)
         IN  Fill(dev,
                  [ i \in 1..Len(Old) |->
                      IF pos < i /\ i <= pos + g.n THEN ByteAt(dev, g.addr + (i - pos - 1))
                      ELSE Old[i] ],
                  Tail(segs), pos + g.len)

-----------------------------------------------------------------------------
(* Directory entries and path resolution.  A path and a name are           *)
(* sequences of bytes (std::string_view).                                  *)

\* The byte '/'.
SlashChar == 47

Zeros(n) == [ i \in 1..n |-> 0 ]

\* struct LinkedDirEntryHeader, decoded from the 8 bytes read into it.
DecodeHdr(b) ==
    [ inode     |-> b[1] + 256 * b[2] + 65536 * b[3] + 16777216 * b[4],
      rec_len   |-> b[5] + 256 * b[6],
      name_len  |-> b[7],
      file_type |-> b[8] ]

ZeroHdr == DecodeHdr(Zeros(SizeofHdr))

\* Drive::FindDirectoryEntry, the loop from Offset on.
RECURSIVE FindFrom(_, _, _, _, _)
FindFrom(d, I, Name, Offset, io) ==
    IF ~(Offset < I.i_size) THEN [ ok |-> FALSE, H |-> ZeroHdr, io |-> io ] ELSE
    Bind(ReadInodeData(d, I, Offset, SizeofHdr), LAMBDA rh :
    IF ~rh.ok THEN [ ok |-> FALSE, H |-> ZeroHdr, io |-> io + rh.io ] ELSE
    Bind(DecodeHdr(Fill(d.dev, Zeros(SizeofHdr), rh.segs, 0)), LAMBDA H :
    \* The name is read when the lengths agree.
    Bind(IF H.name_len = Len(Name)
         THEN ReadInodeData(d, I, Offset + SizeofHdr, H.name_len)
         ELSE [ ok |-> TRUE, segs |-> << >>, io |-> 0 ], LAMBDA rn :
    Bind(io + rh.io + rn.io, LAMBDA io2 :
    IF ~rn.ok THEN [ ok |-> FALSE, H |-> ZeroHdr, io |-> io2 ]
    ELSE IF H.name_len = Len(Name)
            /\ Fill(d.dev, Zeros(H.name_len), rn.segs, 0) = Name
    THEN [ ok |-> TRUE, H |-> H, io |-> io2 ]
    ELSE IF H.rec_len = 0 THEN [ ok |-> FALSE, H |-> ZeroHdr, io |-> io2 ]
    ELSE FindFrom(d, I, Name, Offset + H.rec_len, io2)))))

FindDirectoryEntry(d, I, Name) ==
    IF ~Is(I, FmtDirectory) THEN [ ok |-> FALSE, H |-> ZeroHdr, io |-> 0 ]
    ELSE FindFrom(d, I, Name, 0, 0)

\* Drive::GetFileFormat
GetFileFormat(d, Hdr) ==
    IF d.Sb.s_rev_level = DynamicRev /\ Hdr.file_type \in 0..7
    THEN [ ok |-> TRUE, io |-> 0,
           FF |-> CASE Hdr.file_type = 0 -> FmtUnknown
                    [] Hdr.file_type = 1 -> FmtRegularFile
                    [] Hdr.file_type = 2 -> FmtDirectory
                    [] Hdr.file_type = 3 -> FmtCharacterDevice
                    [] Hdr.file_type = 4 -> FmtBlockDevice
                    [] Hdr.file_type = 5 -> FmtFifo
                    [] Hdr.file_type = 6 -> FmtSocket
                    [] OTHER             -> FmtSymbolicLink ]
    ELSE Bind(ReadInode(d, Hdr.inode), LAMBDA Inode :
         [ ok |-> Inode.ok, io |-> Inode.io,
           FF |-> (Inode.I.i_mode \div 4096) * 4096 ])

\* std::string_view::starts_with("/")
StartsWithSlash(Path) == Path # << >> /\ Path[1] = SlashChar

\* RemoveLeadingSlashes
RECURSIVE RemoveLeadingSlashes(_)
RemoveLeadingSlashes(Path) ==
    IF Path # << >> /\ Path[1] = SlashChar THEN RemoveLeadingSlashes(Tail(Path))
    ELSE Path

\* Path.find('/'): the 0-based index of the first '/', or Len(Path) for npos.
FindSlash(Path) ==
    IF \E i \in 1..Len(Path) : Path[i] = SlashChar
    THEN (CHOOSE i \in 1..Len(Path) :
              Path[i] = SlashChar /\ \A j \in 1..(i - 1) : Path[j] # SlashChar) - 1
    ELSE Len(Path)

\* Drive::InodeFromPath(std::string_view, InodeNumberType): the for (;;)
\* loop, entered with a non-empty Path.
RECURSIVE WalkPath(_, _, _, _)
WalkPath(d, Path, Origin, io) ==
    Bind(FindSlash(Path), LAMBDA Slash :
    Bind(SubSeq(Path, 1, Slash), LAMBDA Component :
    Bind(SubSeq(Path, Slash + 2, Len(Path)), LAMBDA Rest :
    Bind(ReadInode(d, Origin), LAMBDA OriginInode :
    Bind(io + OriginInode.io, LAMBDA io1 :
    IF ~OriginInode.ok THEN [ ok |-> FALSE, ino |-> 0, io |-> io1 ]
    ELSE IF ~Is(OriginInode.I, FmtDirectory) THEN [ ok |-> FALSE, ino |-> 0, io |-> io1 ] ELSE
    Bind(FindDirectoryEntry(d, OriginInode.I, Component), LAMBDA Entry :
    Bind(io1 + Entry.io, LAMBDA io2 :
    IF ~Entry.ok THEN [ ok |-> FALSE, ino |-> 0, io |-> io2 ] ELSE
    \* The format is looked at when a '/' follows the component.
    Bind(IF StartsWithSlash(Rest) THEN GetFileFormat(d, Entry.H)
         ELSE [ ok |-> TRUE, io |-> 0, FF |-> FmtDirectory ], LAMBDA FF :
    Bind(RemoveLeadingSlashes(Rest), LAMBDA Left :
    IF ~FF.ok \/ FF.FF # FmtDirectory THEN [ ok |-> FALSE, ino |-> 0, io |-> io2 + FF.io ]
    ELSE IF Left = << >> THEN [ ok |-> TRUE, ino |-> Entry.H.inode, io |-> io2 + FF.io ]
    ELSE WalkPath(d, Left, Entry.H.inode, io2 + FF.io))))))))))

InodeFromPathNum(d, Path, Origin) ==
    IF Path # << >> THEN WalkPath(d, Path, Origin, 0)
    ELSE [ ok |-> TRUE, ino |-> Origin, io |-> 0 ]

\* A resolver that takes the root as the origin of a relative path whose
\* origin is empty or not absolute, where InodeFromPath gives up.
InodeFromPathDefaultRoot(d, Path, OriginPath) ==
    IF Path = << >> THEN [ ok |-> FALSE, ino |-> 0, io |-> 0 ] ELSE
    Bind(IF StartsWithSlash(Path) \/ OriginPath = << >> \/ ~StartsWithSlash(OriginPath)
         THEN [ ok |-> TRUE, ino |-> ROOT_INODE_NUMBER, io |-> 0 ]
         ELSE InodeFromPathNum(d, RemoveLeadingSlashes(OriginPath), ROOT_INODE_NUMBER),
         LAMBDA OriginInode :
    IF ~OriginInode.ok THEN [ ok |-> FALSE, ino |-> 0, io |-> OriginInode.io ] ELSE
    Bind(InodeFromPathNum(d, RemoveLeadingSlashes(Path), OriginInode.ino), LAMBDA r :
    [ ok |-> r.ok, ino |-> r.ino, io |-> OriginInode.io + r.io ]))

\* Drive::InodeFromPath(std::string_view, std::string_view).  The origin
\* is resolved by a call of the same function with the default Origin "".
RECURSIVE InodeFromPath(_, _, _)
InodeFromPath(d, Path, OriginPath) ==
    IF Path = << >> THEN [ ok |-> FALSE, ino |-> 0, io |-> 0 ]
    ELSE IF StartsWithSlash(Path)
    THEN InodeFromPathNum(d, RemoveLeadingSlashes(Path), ROOT_INODE_NUMBER)
    ELSE IF OriginPath = << >> THEN [ ok |-> FALSE, ino |-> 0, io |-> 0 ]
    ELSE IF ~StartsWithSlash(OriginPath) THEN [ ok |-> FALSE, ino |-> 0, io |-> 0 ] ELSE
    Bind(InodeFromPath(d, OriginPath, << >>), LAMBDA OriginInode :
    IF ~OriginInode.ok THEN [ ok |-> FALSE, ino |-> 0, io |-> OriginInode.io ] ELSE
    Bind(InodeFromPathNum(d, Path, OriginInode.ino), LAMBDA r :
    [ ok |-> r.ok, ino |-> r.ino, io |-> OriginInode.io + r.io ]))

-----------------------------------------------------------------------------
(* The images the runs start from.  An image is what mkfs and earlier      *)
(* writers left on the device: a superblock, a descriptor table, an inode  *)
(* table and the data blocks of its directories.                           *)

LE16(x) == << x % 256, (x \div 256) % 256 >>
LE32(x) == LE16(x % 65536) \o LE16(x \div 65536)

\* The bytes of one linked directory entry, without its padding.
EntryBytes(e) ==
    LE32(e.inode) \o LE16(e.rec_len) \o << Len(e.name), e.file_type >> \o e.name

\* The bytes of a directory block: every entry at the offset the rec_len
\* of the entries before it give, padded with zeros.
RECURSIVE EncodeDir(_)
EncodeDir(entries) ==
    IF entries = << >> THEN << >>
    ELSE LET e == Head(entries)
             b == EntryBytes(e)
         IN  IF Tail(entries) = << >> THEN b
             ELSE b \o Zeros(e.rec_len - Len(b)) \o EncodeDir(Tail(entries))

\* The file_type byte an image writes for an inode of format FF: 0 on a
\* volume written without typed entries, else the ext2 type code.
TypeCode(FF) ==
    CASE FF = FmtRegularFile -> 1
      [] FF = FmtDirectory   -> 2
      [] OTHER               -> 0

Geometry ==
    [ s_inodes_count |-> 8, s_inodes_per_group |-> 4, s_inode_size |-> SizeofInode,
      s_log_block_size |-> 0 ]

\* Bytes of the names used: ".", "a", "b".
NameBytes == [ dot |-> 46, a |-> 97, b |-> 98 ]
Dot == NameBytes.dot
ChA == NameBytes.a
ChB == NameBytes.b

\* An inode of the image.
MkInode(FF, size, blk) ==
    [ i_mode |-> FF + 420, i_size |-> size,
      i_block |-> [ k \in 1..15 |-> IF k = 1 THEN blk ELSE 0 ] ]

\* A directory's entries: (name, inode) pairs laid out with rec_len 12, the
\* last filling the block; typed says whether file_type bytes are written,
\* and fmt gives the format of each inode.
RECURSIVE Layout(_, _, _, _)
Layout(pairs, typed, fmt, off) ==
    IF pairs = << >> THEN << >>
    ELSE LET p == Head(pairs)
             ft == IF typed /\ p[2] \in DOMAIN fmt THEN TypeCode(fmt[p[2]]) ELSE 0
         IN  << [ inode |-> p[2],
                  rec_len |-> IF Tail(pairs) = << >> THEN 1024 - off ELSE 12,
                  file_type |-> ft, name |-> p[1] ] >>
             \o Layout(Tail(pairs), typed, fmt, off + 12)

\* The tree every image holds:
\*   /      (inode 2)   .  ..  a -> 3  b -> 4
\*   /a     (inode 3)   .  ..  [tomb] b -> 5  a -> 6
\*   /b     (inode 4)   a regular file
\*   /a/b   (inode 5)   a regular file
\*   /a/a   (inode 6)   .  ..
\* tomb: /a holds a tombstone (inode 0) named "b" before its live entry b.
TreeFormats ==
    [ n \in 2..6 |-> IF n \in {2, 3, 6} THEN FmtDirectory ELSE FmtRegularFile ]

TreeImage(typed, tomb, garbage) ==
    LET root == << << << Dot >>, 2 >>, << << Dot, Dot >>, 2 >>,
                   << << ChA >>, 3 >>, << << ChB >>, 4 >> >>
        a    == << << << Dot >>, 3 >>, << << Dot, Dot >>, 2 >> >>
                \o (IF tomb THEN << << << ChB >>, 0 >> >> ELSE << >>)
                \o << << << ChB >>, 5 >>, << << ChA >>, 6 >> >>
        aa   == << << << Dot >>, 6 >>, << << Dot, Dot >>, 3 >> >>
    IN  [ bgdt   |-> [ g \in 0..1 |-> [ bg_inode_table |-> 5 + g ] ],
          inodes |-> [ n \in 2..6 |->
                         CASE n = 2 -> MkInode(FmtDirectory, 1024, 20)
                           [] n = 3 -> MkInode(FmtDirectory, 1024, 21)
                           [] n = 4 -> MkInode(FmtRegularFile, 300, 22)
                           [] n = 5 -> MkInode(FmtRegularFile, 0, 0)
                           [] OTHER -> MkInode(FmtDirectory, 1024, 23) ],
          blocks |-> (20 :> EncodeDir(Layout(root, typed, TreeFormats, 0)))
                     @@ (21 :> EncodeDir(Layout(a, typed, TreeFormats, 0)))
                     @@ (23 :> EncodeDir(Layout(aa, typed, TreeFormats, 0))),
          garbage |-> garbage ]

\* What uninitialised memory may hold when the code reads it.
GarbageValues ==
    { [ u32 |-> 0, inode |-> [ZeroInode EXCEPT !.i_mode = FmtRegularFile] ],
      [ u32 |-> 5, inode |-> [ i_mode |-> FmtDirectory, i_size |-> 1024, i_atime |-> 0,
                               i_block |-> [ k \in 1..15 |-> 20 ] ] ] }

\* Length of a full image, in bytes (32 blocks).
DevSize == 32 * 1024
-----------------------------------------------------------------------------
(* Writes.  w is what write(2) does with the request: the number of bytes  *)
(* that reach the device before it fails, or the whole request.            *)

\* Write: ok when every byte was written.
Write(Size, w) == [ ok |-> w >= Size, n |-> Min(w, Size) ]

\* The superblock on the device after the first n bytes of Sb were written
\* over it: a field is replaced when it lies in those bytes.
WriteSuperblock(old, Sb, n) ==
    [ f \in DOMAIN old |->
        LET end == CASE f = "s_mtime"             -> OffMtime + 4
                     [] f = "s_mnt_count"         -> OffMntCount + 2
                     [] f = "s_magic"             -> OffMagic + 2
                     [] f = "s_state"             -> OffState + 2
                     [] f = "s_rev_level"         -> OffRevLevel + 4
                     [] f = "s_feature_compat"    -> OffFeatureCompat + 4
                     [] f = "s_feature_incompat"  -> OffFeatureIncompat + 4
                     [] f = "s_feature_ro_compat" -> OffFeatureRoCompat + 4
                     [] OTHER                     -> OffMtime
        IN  IF end <= n THEN Sb[f] ELSE old[f] ]

\* Byte offset of i_atime in struct Inode.
OffAtime == 8

-----------------------------------------------------------------------------
(* Drive: construction, destruction, TryMount.                             *)

\* Drive::Drive: the mount time and the mount count of the superblock kept
\* in memory.
DriveCtor(Fd_, Sb_, now) ==
    [ FileHandle |-> Fd_,
      Sb |-> [Sb_ EXCEPT !.s_mtime = ToU32(now),
                         !.s_mnt_count = ToU16(@ + 1)] ]

\* Drive::~Drive tests `if (FileHandle)` before it writes and closes.
DtorWrites(drv) == drv.FileHandle # 0

\* The superblock ~Drive writes.
DtorSuperblock(drv) == [drv.Sb EXCEPT !.s_state = Valid]

\* Drive::TryMount's checks on the superblock it read.
MountRefusal(sb) ==
    IF sb.s_magic # EXT2_SUPER_MAGIC THEN "BadMagic"
    ELSE IF sb.s_feature_incompat # 0 \/ sb.s_feature_ro_compat # 0 THEN "UnsupportedFeatures"
    ELSE IF sb.s_state = HasErrors THEN "DirtyFilesystem"
    ELSE "none"

\* Drive::TryMount.  sb is not initialised: when Read reports success without
\* having filled it, the checks run on what the stack held (stack).
TryMount(dev, Fd, now, stack) ==
    Bind(Read(dev, SUPERBLOCK_OFFSET, SizeofSuperblock), LAMBDA r :
    IF ~r.ok THEN NoDrive ELSE
    Bind(IF r.n = SizeofSuperblock THEN dev.sb ELSE stack, LAMBDA sb :
    IF MountRefusal(sb) # "none" THEN NoDrive
    ELSE DriveCtor(Fd, [sb EXCEPT !.s_state = HasErrors], now)))

\* The count of owners were the Drv of a Dir a std::weak_ptr: the caller's
\* pointer alone.
UseCountCallerOnly(h, d) == IF h THEN 1 ELSE 0

\* std::shared_ptr<Drive>::use_count(): the caller's pointer (h) and the Drv
\* of the Dir (d).
UseCount(h, d) ==
    (IF h THEN 1 ELSE 0) + (IF d # NoDir THEN 1 ELSE 0)

-----------------------------------------------------------------------------
(* Directory handle API: Dir and Dir::Iterator.                            *)

\* An Iterator as its member initialisers leave it.  Hdr is kept as the 8
\* bytes of the struct; Name is the part of the 256-byte array written so
\* far, the rest of the array being zeros.
DefaultIterator ==
    [ D |-> 0, Hdr |-> Zeros(SizeofHdr), Name |-> << >>, NextOffset |-> 0, Done |-> TRUE ]

\* A buffer seen at length n: its bytes, then zeros.
Pad(buf, n) == [ i \in 1..Max(n, Len(buf)) |-> IF i <= Len(buf) THEN buf[i] ELSE 0 ]

\* An operator++ without the branch that skips entries whose inode is 0.
RECURSIVE IteratorNextYieldingAll(_, _, _, _)
IteratorNextYieldingAll(d, I, it, io) ==
    IF it.NextOffset >= I.i_size
    THEN [ it |-> [it EXCEPT !.Done = TRUE], io |-> io ] ELSE
    Bind(ReadInodeData(d, I, it.NextOffset, SizeofHdr), LAMBDA rh :
    IF ~rh.ok THEN [ it |-> DefaultIterator, io |-> io + rh.io ] ELSE
    Bind(Fill(d.dev, it.Hdr, rh.segs, 0), LAMBDA hb :
    Bind(DecodeHdr(hb), LAMBDA Hdr :
    IF Hdr.rec_len = 0
    THEN [ it |-> [it EXCEPT !.Hdr = hb, !.Done = TRUE], io |-> io + rh.io ] ELSE
    Bind(ReadInodeData(d, I, it.NextOffset + SizeofHdr, Hdr.name_len), LAMBDA rn :
    IF ~rn.ok THEN [ it |-> DefaultIterator, io |-> io + rh.io + rn.io ]
    ELSE [ it |-> [it EXCEPT !.Hdr = hb,
                             !.Name = Fill(d.dev, Pad(it.Name, Hdr.name_len), rn.segs, 0),
                             !.NextOffset = @ + Hdr.rec_len],
           io |-> io + rh.io + rn.io ]))))

\* Dir::Iterator::operator++ on the iterator `it` of a Dir holding inode I.
RECURSIVE IteratorNext(_, _, _, _)
IteratorNext(d, I, it, io) ==
    IF it.NextOffset >= I.i_size
    THEN [ it |-> [it EXCEPT !.Done = TRUE], io |-> io ] ELSE
    Bind(ReadInodeData(d, I, it.NextOffset, SizeofHdr), LAMBDA rh :
    IF ~rh.ok THEN [ it |-> DefaultIterator, io |-> io + rh.io ] ELSE
    Bind(Fill(d.dev, it.Hdr, rh.segs, 0), LAMBDA hb :
    Bind(DecodeHdr(hb), LAMBDA Hdr :
    IF Hdr.rec_len = 0
    THEN [ it |-> [it EXCEPT !.Hdr = hb, !.Done = TRUE], io |-> io + rh.io ]
    ELSE IF Hdr.inode = 0
    THEN IteratorNext(d, I, [it EXCEPT !.Hdr = hb, !.NextOffset = @ + Hdr.rec_len],
                      io + rh.io) ELSE
    Bind(ReadInodeData(d, I, it.NextOffset + SizeofHdr, Hdr.name_len), LAMBDA rn :
    IF ~rn.ok THEN [ it |-> DefaultIterator, io |-> io + rh.io + rn.io ]
    ELSE [ it |-> [it EXCEPT !.Hdr = hb,
                             !.Name = Fill(d.dev, Pad(it.Name, Hdr.name_len), rn.segs, 0),
                             !.NextOffset = @ + Hdr.rec_len],
           io |-> io + rh.io + rn.io ]))))

\* Dir::Iterator::Iterator(Dir*), as Dir::begin() calls it.
IteratorCtor(d, I, D_) ==
    IteratorNext(d, I, [DefaultIterator EXCEPT !.D = D_, !.Done = FALSE], 0)

\* Dir::Iterator::operator*: the entry's name.
IteratorDeref(it) ==
    SubSeq(Pad(it.Name, MAX_PATH + 1), 1, Min(MAX_PATH, DecodeHdr(it.Hdr).name_len))

-----------------------------------------------------------------------------
(* Drive API: OpenDir and Stat.                                            *)

\* Drive::OpenDir: the Dir holds the inode, its number and a shared_ptr to
\* the drive (This.lock()).
OpenDir(d, FilePath, Origin) ==
    Bind(InodeFromPath(d, FilePath, Origin), LAMBDA INum :
    IF ~INum.ok THEN [ ok |-> FALSE, dir |-> NoDir, io |-> INum.io ] ELSE
    Bind(ReadInode(d, INum.ino), LAMBDA I :
    IF ~I.ok THEN [ ok |-> FALSE, dir |-> NoDir, io |-> INum.io + I.io ]
    ELSE [ ok |-> TRUE, dir |-> [ I |-> I.I, InodeNumber |-> INum.ino ],
           io |-> INum.io + I.io ]))

\* Drive::WriteInode: where the record is written and how much of it
\* reaches the device.
WriteInode(d, InodeNumber, w) ==
    Bind(ComputeInodeOffset(d, InodeNumber), LAMBDA Offset :
    IF ~Offset.ok
    THEN [ ok |-> FALSE, wrote |-> FALSE, Offset |-> 0, n |-> 0, io |-> Offset.io ] ELSE
    Bind(Write(SizeofInode, w), LAMBDA r :
    [ ok |-> r.ok, wrote |-> TRUE, Offset |-> Offset.Offset, n |-> r.n, io |-> Offset.io ]))

\* Drive::Stat.  st is the struct stat returned; wr describes the write of
\* the inode.
Stat(d, FilePath, Origin, now, w) ==
    LET NoWr == [ ok |-> FALSE, wrote |-> FALSE, Offset |-> 0, n |-> 0, io |-> 0 ]
        NoSt == [ st_ino |-> 0, st_mode |-> 0, st_size |-> 0, st_blksize |-> 0, st_atime |-> 0 ]
    IN
    Bind(InodeFromPath(d, FilePath, Origin), LAMBDA INum :
    IF ~INum.ok
    THEN [ ok |-> FALSE, st |-> NoSt, wr |-> NoWr, atime |-> 0, io |-> INum.io ] ELSE
    Bind(ReadInode(d, INum.ino), LAMBDA I :
    IF ~I.ok
    THEN [ ok |-> FALSE, st |-> NoSt, wr |-> NoWr, atime |-> 0, io |-> INum.io + I.io ] ELSE
    Bind(ToU32(now), LAMBDA at :
    Bind(WriteInode(d, INum.ino, w), LAMBDA wr :
    [ ok |-> wr.ok,
      st |-> IF wr.ok
             THEN [ st_ino |-> INum.ino, st_mode |-> I.I.i_mode, st_size |-> I.I.i_size,
                    st_blksize |-> block_size(d.Sb), st_atime |-> at ]
             ELSE NoSt,
      wr |-> wr, atime |-> at,
      io |-> INum.io + I.io + wr.io ]))))

-----------------------------------------------------------------------------
(* The caller's runs on one image: open, TryMount, Stat, OpenDir,          *)
(* enumeration, and the drops of the volume and of the Dir handles.        *)

\* Descriptors open(2) may return to the caller.
Fds == { 0, 3 }

\* The superblock of a clean, mountable image.
CleanSb == Geometry @@
    [ s_magic |-> EXT2_SUPER_MAGIC, s_state |-> Valid, s_mnt_count |-> 0, s_mtime |-> 0,
      s_feature_compat |-> 0, s_feature_incompat |-> 0,
      s_feature_ro_compat |-> 0, s_rev_level |-> DynamicRev ]

\* Superblocks an image may hold at offset 1024 (and values the stack may
\* hold where TryMount's sb lies): the clean one, and the clean one with
\* one or two of the fields TryMount and the Drive constructor look at
\* changed.
SbVariants ==
    { CleanSb,
      [CleanSb EXCEPT !.s_magic = 4660],
      [CleanSb EXCEPT !.s_state = HasErrors],
      [CleanSb EXCEPT !.s_mnt_count = U16 - 1],
      [CleanSb EXCEPT !.s_feature_compat = 4],
      [CleanSb EXCEPT !.s_feature_incompat = 2],
      [CleanSb EXCEPT !.s_feature_ro_compat = 1] }

SbValues ==
    SbVariants \cup { [sb EXCEPT !.s_state = HasErrors] : sb \in SbVariants }

\* An image file too short to hold a superblock holds nothing else either.
EmptyImage(garbage, bad) ==
    [ bgdt |-> [ g \in 0..1 |-> [ bg_inode_table |-> 0 ] ],
      inodes |-> [ n \in 2..6 |-> MkInode(FmtUnknown, 0, 0) ],
      blocks |-> << >>, garbage |-> garbage, bad |-> bad ]

ZeroSb == Geometry @@
    [ s_magic |-> 0, s_state |-> 0, s_mnt_count |-> 0, s_mtime |-> 0,
      s_feature_compat |-> 0, s_feature_incompat |-> 0,
      s_feature_ro_compat |-> 0, s_rev_level |-> 0 ]

\* The device as the code's reads see it.
Dev == [ len |-> devLen, bad |-> image.bad, sb |-> diskSb, atime |-> diskAtime, img |-> image ]

\* The mounted drive as its methods see it.
Drv == [ dev |-> Dev, Sb |-> drive.Sb ]

\* Paths: byte strings over '/', 'a', 'b' of at most n bytes.
RECURSIVE PathsUpTo(_)
PathsUpTo(n) ==
    IF n = 0 THEN { << >> }
    ELSE PathsUpTo(n - 1)
         \cup { Append(p, c) : p \in { q \in PathsUpTo(n - 1) : Len(q) = n - 1 },
                               c \in { SlashChar, ChA, ChB } }

\* The (path, origin) arguments the caller of a mounted volume passes to
\* Stat and OpenDir: "/" (as main.cc does), and "b" with no origin.
Calls ==
    { [ path |-> << SlashChar >>, origin |-> << >> ],
      [ path |-> << ChB >>, origin |-> << >> ] }

\* The outcomes of the write(2) of a superblock and of an inode: nothing
\* written, a prefix written (up to s_mtime, up to s_state; up to i_atime),
\* or all of it.
SuperblockWrites == { 0, OffMtime + 4, OffState + 2, SizeofSuperblock }
InodeWrites == { 0, OffAtime + 4, SizeofInode }

NoLast == [ op |-> "none", ok |-> FALSE, io |-> 0, name |-> << >>, ino |-> 0,
            wrote |-> FALSE ]

Hist0(sb, len) ==
    [ mounts |-> 0, unmounts |-> 0, sbWrites |-> 0, orig |-> sb, origLen |-> len,
      mountTime |-> 0, writeFailed |-> FALSE, flushFailed |-> FALSE ]

\* The garbage of a run on a full image, where no read leaves its
\* destination unfilled.
NoGarbage == [ u32 |-> 0, inode |-> ZeroInode ]

Init ==
    /\ devLen \in { 0, 1500, DevSize }
    /\ IF devLen = DevSize
       THEN /\ diskSb \in SbValues
            /\ \E bad \in { {}, { 1 } } :
                  image = TreeImage(FALSE, FALSE, NoGarbage) @@ [ bad |-> bad ]
       ELSE /\ diskSb = ZeroSb
            /\ \E g \in GarbageValues : image = EmptyImage(g, {})
    /\ diskAtime = [ n \in 2..6 |-> 0 ]
    /\ clock = 1
    /\ fd \in Fds
    /\ drive = NoDrive
    /\ held = FALSE
    /\ dir = NoDir
    /\ iter = NoIter
    /\ last = NoLast
    /\ hist = Hist0(diskSb, devLen)
    /\ call = << >>
    /\ walk = << >>

\* The caller opens the image again (main.cc: open(Path, O_RDWR)).
Open ==
    /\ fd = NoFd
    /\ \E f \in Fds : fd' = f
    /\ last' = [NoLast EXCEPT !.op = "Open", !.ok = TRUE]
    /\ UNCHANGED << devLen, diskSb, diskAtime, clock, drive, held, dir, iter, hist,
                    image, call, walk >>

\* The clock advances.
Tick ==
    /\ clock < MaxClock
    /\ clock' = clock + 1
    /\ UNCHANGED << devLen, diskSb, diskAtime, fd, drive, held, dir, iter, last, hist,
                    image, call, walk >>

\* Drive::TryMount(fd).
DoTryMount ==
    /\ fd # NoFd
    /\ drive = NoDrive
    /\ hist.mounts < MaxMounts
    /\ \E stack \in (IF Read(Dev, SUPERBLOCK_OFFSET, SizeofSuperblock).n = SizeofSuperblock
                     THEN { diskSb } ELSE SbValues) :
          \E ptr \in { TryMount(Dev, fd, clock, stack) } :
              /\ drive' = ptr
              /\ held' = (ptr # NoDrive)
              /\ last' = [NoLast EXCEPT !.op = "TryMount", !.ok = (ptr # NoDrive), !.io = 1]
              /\ hist' = IF ptr # NoDrive
                         THEN [hist EXCEPT !.mounts = @ + 1, !.mountTime = clock]
                         ELSE hist
    /\ UNCHANGED << devLen, diskSb, diskAtime, clock, fd, dir, iter, image, call, walk >>

\* Drive::~Drive, run when the last shared_ptr goes; w is the outcome of
\* the write(2) of the superblock.
Destroy(w) ==
    LET r == Write(SizeofSuperblock, w)
    IN  /\ drive' = NoDrive
        /\ IF DtorWrites(drive)
           THEN /\ diskSb' = WriteSuperblock(diskSb, DtorSuperblock(drive), r.n)
                /\ devLen' = IF r.n > 0 THEN Max(devLen, SUPERBLOCK_OFFSET + r.n) ELSE devLen
                /\ fd' = NoFd
                /\ hist' = [hist EXCEPT !.unmounts = @ + 1, !.sbWrites = @ + 1,
                                        !.writeFailed = @ \/ ~r.ok, !.flushFailed = ~r.ok]
           ELSE /\ UNCHANGED << diskSb, devLen, fd >>
                /\ hist' = [hist EXCEPT !.unmounts = @ + 1, !.flushFailed = FALSE]

\* The caller drops the shared_ptr<Drive> TryMount returned.
DropVolume ==
    /\ held
    /\ held' = FALSE
    /\ IF UseCount(FALSE, dir) = 0
       THEN \E w \in SuperblockWrites :
               /\ Destroy(w)
               /\ last' = [NoLast EXCEPT !.op = "DropVolume", !.ok = TRUE,
                                         !.wrote = DtorWrites(drive)]
       ELSE /\ last' = [NoLast EXCEPT !.op = "DropVolume", !.ok = TRUE]
            /\ UNCHANGED << drive, diskSb, devLen, fd, hist >>
    /\ UNCHANGED << diskAtime, clock, dir, iter, image, call, walk >>

\* The caller drops its Dir (std::unique_ptr<Dir>), and its iterator with it.
DropDir ==
    /\ dir # NoDir
    /\ dir' = NoDir
    /\ iter' = NoIter
    /\ walk' = << >>
    /\ IF UseCount(held, NoDir) = 0
       THEN \E w \in SuperblockWrites :
               /\ Destroy(w)
               /\ last' = [NoLast EXCEPT !.op = "DropDir", !.ok = TRUE,
                                         !.wrote = DtorWrites(drive)]
       ELSE /\ last' = [NoLast EXCEPT !.op = "DropDir", !.ok = TRUE]
            /\ UNCHANGED << drive, diskSb, devLen, fd, hist >>
    /\ UNCHANGED << diskAtime, clock, held, image, call >>

\* Drive::Stat(path, origin) through the caller's pointer.  The caller stats
\* only images that were a file system when the run began.
DoStat ==
    /\ held
    /\ drive # NoDrive
    /\ hist.origLen = DevSize
    /\ \E c \in Calls, w \in InodeWrites :
          \E r \in { Stat(Drv, c.path, c.origin, clock, w) } :
              /\ diskAtime' =
                     IF r.wr.wrote /\ r.wr.n >= OffAtime + 4
                     THEN [ n \in DOMAIN diskAtime |->
                              IF InodeTableOffset(Dev, n) = r.wr.Offset THEN r.atime
                              ELSE diskAtime[n] ]
                     ELSE diskAtime
              /\ devLen' = IF r.wr.wrote /\ r.wr.n > 0
                           THEN Max(devLen, r.wr.Offset + r.wr.n) ELSE devLen
              /\ last' = [NoLast EXCEPT !.op = "Stat", !.ok = r.ok, !.io = r.io,
                                        !.ino = r.st.st_ino,
                                        !.wrote = (r.wr.wrote /\ r.wr.n > 0)]
    /\ UNCHANGED << diskSb, clock, fd, drive, held, dir, iter, hist, image, call, walk >>

\* Drive::OpenDir(path, origin) through the caller's pointer, when the
\* caller holds no Dir.
DoOpenDir ==
    /\ held
    /\ drive # NoDrive
    /\ dir = NoDir
    /\ \E c \in Calls :
          \E r \in { OpenDir(Drv, c.path, c.origin) } :
              /\ dir' = r.dir
              /\ last' = [NoLast EXCEPT !.op = "OpenDir", !.ok = r.ok, !.io = r.io,
                                        !.ino = IF r.ok THEN r.dir.InodeNumber ELSE 0]
    /\ UNCHANGED << devLen, diskSb, diskAtime, clock, fd, drive, held, iter, hist,
                    image, call, walk >>

\* What an iterator step reports: the entry it stands on, or the end.
IterLast(op, r) ==
    [NoLast EXCEPT !.op = op, !.ok = ~r.it.Done, !.io = r.io,
                   !.name = IF r.it.Done THEN << >> ELSE IteratorDeref(r.it),
                   !.ino = IF r.it.Done THEN 0 ELSE DecodeHdr(r.it.Hdr).inode]

\* Dir::begin() on the caller's Dir.
Begin ==
    /\ dir # NoDir
    /\ drive # NoDrive
    /\ \E r \in { IteratorCtor(Drv, dir.I, 1) } :
           /\ iter' = r.it
           /\ last' = IterLast("Begin", r)
           /\ walk' = IF r.it.Done THEN << >> ELSE << IteratorDeref(r.it) >>
    /\ UNCHANGED << devLen, diskSb, diskAtime, clock, fd, drive, held, dir, hist,
                    image, call >>

\* ++it on the caller's iterator, while it != end().
Advance ==
    /\ dir # NoDir
    /\ drive # NoDrive
    /\ iter # NoIter
    /\ ~iter.Done
    /\ \E r \in { IteratorNext(Drv, dir.I, iter, 0) } :
           /\ iter' = r.it
           /\ last' = IterLast("Advance", r)
           /\ walk' = IF r.it.Done THEN walk ELSE Append(walk, IteratorDeref(r.it))
    /\ UNCHANGED << devLen, diskSb, diskAtime, clock, fd, drive, held, dir, hist,
                    image, call >>

Next ==
    \/ Open
    \/ Tick
    \/ DoTryMount
    \/ DoStat
    \/ DoOpenDir
    \/ DropVolume
    \/ Begin
    \/ Advance
    \/ DropDir

Spec == Init /\ [][Next]_vars

-----------------------------------------------------------------------------
(* Mounting and unmounting: C1 - C6, over Spec.                            *)

\* The 1024 bytes at offset 1024 are there and reading them raises no error.
SuperblockReadable ==
    /\ devLen >= SUPERBLOCK_OFFSET + SizeofSuperblock
    /\ 1 \notin image.bad

\* The run began on an image whose superblock is readable and passes every
\* check of the mount.
MountableOrigin ==
    /\ hist.origLen = DevSize
    /\ 1 \notin image.bad
    /\ MountRefusal(hist.orig) = "none"

\* C1: TryMount returns a drive if and only if the superblock at offset 1024
\* is readable, its magic is 0xEF53, s_feature_incompat and
\* s_feature_ro_compat are zero and s_state is not HasErrors.
C1_MountIffAcceptable ==
    last.op = "TryMount" =>
        (last.ok <=> /\ SuperblockReadable
                     /\ diskSb.s_magic = EXT2_SUPER_MAGIC
                     /\ diskSb.s_feature_incompat = 0
                     /\ diskSb.s_feature_ro_compat = 0
                     /\ diskSb.s_state # HasErrors)

\* C2: after k = 1 or k = 2 cycles of TryMount and unmount of a mountable
\* image, none of whose writes failed, the superblock on the device has
\* s_state = Valid, the 16-bit s_mnt_count of the original plus k, and the
\* time of the last mount as s_mtime -- whatever descriptor was mounted.
C2_CyclesLeaveCleanSuperblock ==
    \A k \in 1..MaxMounts :
        ( /\ MountableOrigin
          /\ hist.mounts = k
          /\ hist.unmounts = k
          /\ ~hist.writeFailed )
        => /\ diskSb.s_state = Valid
           /\ diskSb.s_mnt_count = ToU16(hist.orig.s_mnt_count + k)
           /\ diskSb.s_mtime = hist.mountTime

\* C3: while a drive is mounted on a readable image the superblock on the
\* device has s_state = HasErrors, and after an unmount whose write
\* succeeded it has s_state = Valid.
C3_DirtyWhileMounted ==
    /\ (drive # NoDrive /\ MountableOrigin) => diskSb.s_state = HasErrors
    /\ (drive = NoDrive /\ MountableOrigin /\ hist.unmounts > 0 /\ ~hist.flushFailed)
           => diskSb.s_state = Valid

\* C4: on a mountable image the superblock region is written once per
\* successful mount, at the unmount: every unmount has written it once, and
\* between mounts the writes number the mounts.
C4_OneSuperblockWritePerMount ==
    MountableOrigin =>
        /\ hist.sbWrites = hist.unmounts
        /\ drive = NoDrive => hist.sbWrites = hist.mounts

\* C5: when the write of the superblock at unmount failed, the superblock on
\* the device has s_state = HasErrors, and the next TryMount returns no
\* drive.
C5_FailedFlushLeavesDirty ==
    ( /\ MountableOrigin
      /\ hist.flushFailed )
    => /\ drive = NoDrive => diskSb.s_state = HasErrors
       /\ last.op = "TryMount" => ~last.ok

-----------------------------------------------------------------------------
(* Path resolution on a mounted volume: C7 - C9, over SpecPath.            *)

\* The images of the tree: entries with or without the file_type byte, and
\* with or without a tombstone named "b" in /a.
TreeImages ==
    { TreeImage(typed, tomb, NoGarbage) @@ [ bad |-> {} ] : typed, tomb \in BOOLEAN }

\* Origins handed to InodeFromPath: none, "/", "/a", "a", "b/".
Origins ==
    { << >>, << SlashChar >>, << SlashChar, ChA >>, << ChA >>, << ChB, SlashChar >> }

NoCall == [ op |-> "none" ]

InitPath ==
    /\ devLen = DevSize
    /\ diskSb \in { [CleanSb EXCEPT !.s_rev_level = rev] : rev \in { GoodOldRev, DynamicRev } }
    /\ image \in TreeImages
    /\ diskAtime = [ n \in 2..6 |-> 0 ]
    /\ clock = 1
    /\ fd = 3
    /\ drive = NoDrive
    /\ held = FALSE
    /\ dir = NoDir
    /\ iter = NoIter
    /\ last = NoLast
    /\ hist = Hist0(diskSb, devLen)
    /\ call = NoCall
    /\ walk = << >>

\* The inode number InodeFromPath gives for p names a directory.
NamesDirectory(d, p, origin) ==
    Bind(InodeFromPath(d, p, origin), LAMBDA r :
    r.ok /\ Bind(ReadInode(d, r.ino), LAMBDA I : I.ok /\ Is(I.I, FmtDirectory)))

\* InodeFromPath(path, origin), as Stat and OpenDir begin; a run makes one
\* resolution.
Resolve ==
    /\ held
    /\ drive # NoDrive
    /\ call = NoCall
    /\ \E p \in PathsUpTo(MaxPathLen), o \in Origins :
          \E r \in { InodeFromPath(Drv, p, o) } :
              call' = [ op |-> "resolve", path |-> p, origin |-> o,
                        ok |-> r.ok, ino |-> r.ino, io |-> r.io ]
    /\ UNCHANGED << devLen, diskSb, diskAtime, clock, fd, drive, held, dir, iter, last,
                    hist, image, walk >>

\* The two sides of a joined resolution: InodeFromPath(a + "/" + b), and
\* InodeFromPath(b, n) from the inode number n that InodeFromPath(a) gives.
ResolveJoin ==
    /\ held
    /\ drive # NoDrive
    /\ call = NoCall
    /\ \E a \in PathsUpTo(MaxPathLen), b \in PathsUpTo(MaxPathLen - 1) :
          \E ra \in { InodeFromPath(Drv, a, << >>) } :
          \E rj \in { InodeFromPath(Drv, a \o << SlashChar >> \o b, << >>) } :
          \E rb \in { IF ra.ok THEN InodeFromPathNum(Drv, b, ra.ino)
                       ELSE [ ok |-> FALSE, ino |-> 0, io |-> 0 ] } :
              call' = [ op |-> "join", a |-> a, b |-> b,
                        aIsDir |-> NamesDirectory(Drv, a, << >>),
                        joined |-> [ ok |-> rj.ok, ino |-> IF rj.ok THEN rj.ino ELSE 0 ],
                        from |-> [ ok |-> rb.ok, ino |-> IF rb.ok THEN rb.ino ELSE 0 ] ]
    /\ UNCHANGED << devLen, diskSb, diskAtime, clock, fd, drive, held, dir, iter, last,
                    hist, image, walk >>

NextPath ==
    \/ DoTryMount
    \/ Resolve
    \/ ResolveJoin

SpecPath == InitPath /\ [][NextPath]_vars

\* The bytes of path p that end a component followed by a '/'.
ComponentEnds(p) ==
    { i \in 1..(Len(p) - 1) : p[i] # SlashChar /\ p[i + 1] = SlashChar }

\* C7: a resolution succeeds only if every component of the path that is
\* followed by a '/' -- before another component or trailing -- names a
\* directory inode.
C7_SlashOnlyAfterDirectory ==
    (call.op = "resolve" /\ call.ok) =>
        \A i \in ComponentEnds(call.path) :
            NamesDirectory(Drv, SubSeq(call.path, 1, i), call.origin)

\* C8: for a resolving to a directory and b a relative path (one that
\* section 4.2 does not send back to the root), resolving a + "/" + b gives
\* what resolving b from the inode of a gives: the same inode number, or a
\* failure on both sides.
C8_JoinIsAssociative ==
    ( /\ call.op = "join"
      /\ call.aIsDir
      /\ ~StartsWithSlash(call.b) )
    => call.joined = call.from

\* C9: InodeFromPath fails, having read nothing, when the path is empty; and
\* it fails for a path that does not begin with '/' when the origin is
\* empty or does not begin with '/'.
C9_EmptyPathAndBadOriginFail ==
    call.op = "resolve" =>
        /\ call.path = << >> => (~call.ok /\ call.io = 0)
        /\ ( /\ call.path # << >>
             /\ ~StartsWithSlash(call.path)
             /\ (call.origin = << >> \/ ~StartsWithSlash(call.origin)) )
           => ~call.ok

\* A relative path that names an entry of the root was refused because its
\* origin, though not empty, is not absolute.
C9_RelativePathRefused ==
    /\ call.op = "resolve"
    /\ call.path = << ChA >>
    /\ call.origin = << ChA >>
    /\ ~call.ok
    /\ call.io = 0

-----------------------------------------------------------------------------
(* Directory enumeration: C10, over SpecDir.                               *)

\* Entries a directory is made of: two live entries of rec_len 12, a
\* tombstone, and a live entry whose rec_len of 1020 puts the header after
\* it across the end of a block.
EntryKinds ==
    { [ inode |-> 7, rec_len |-> 12,   file_type |-> 0, name |-> << ChA >> ],
      [ inode |-> 7, rec_len |-> 12,   file_type |-> 0, name |-> << ChB >> ],
      [ inode |-> 0, rec_len |-> 12,   file_type |-> 0, name |-> << ChB >> ],
      [ inode |-> 8, rec_len |-> 1020, file_type |-> 0, name |-> << ChA, ChB >> ] }

\* Directories of at most n entries.
DirLists(n) == UNION { [ 1..k -> EntryKinds ] : k \in 0..n }

RECURSIVE SumRecLen(_)
SumRecLen(es) == IF es = << >> THEN 0 ELSE Head(es).rec_len + SumRecLen(Tail(es))

\* The image whose root directory holds the entries es, one after the
\* other, in the blocks 24, 25, ...; i_size is the end of the last entry.
DirImage(es) ==
    LET bytes == EncodeDir(es)
        size  == SumRecLen(es)
        nblk  == (size + 1023) \div 1024
    IN  [ bgdt   |-> [ g \in 0..1 |-> [ bg_inode_table |-> 5 + g ] ],
          inodes |-> [ n \in 2..6 |->
                         IF n = 2
                         THEN [ i_mode |-> FmtDirectory + 493, i_size |-> size,
                                i_block |-> [ k \in 1..15 |->
                                                IF k <= nblk THEN 23 + k ELSE 0 ] ]
                         ELSE MkInode(FmtUnknown, 0, 0) ],
          blocks |-> [ b \in 24..(23 + nblk) |->
                         SubSeq(bytes, 1024 * (b - 24) + 1,
                                Min(Len(bytes), 1024 * (b - 23))) ],
          garbage |-> NoGarbage, bad |-> {}, listing |-> es ]

InitDir ==
    /\ devLen = DevSize
    /\ diskSb \in { [CleanSb EXCEPT !.s_rev_level = rev] : rev \in { GoodOldRev, DynamicRev } }
    /\ image \in { DirImage(es) : es \in DirLists(MaxEntries) }
    /\ diskAtime = [ n \in 2..6 |-> 0 ]
    /\ clock = 1
    /\ fd = 3
    /\ drive = NoDrive
    /\ held = FALSE
    /\ dir = NoDir
    /\ iter = NoIter
    /\ last = NoLast
    /\ hist = Hist0(diskSb, devLen)
    /\ call = NoCall
    /\ walk = << >>

NextDir ==
    \/ DoTryMount
    \/ DoOpenDir
    \/ Begin
    \/ Advance

SpecDir == InitDir /\ [][NextDir]_vars

\* The names of the entries of es whose inode is not 0, in their order.
RECURSIVE LiveNames(_)
LiveNames(es) ==
    IF es = << >> THEN << >>
    ELSE (IF Head(es).inode # 0 THEN << Head(es).name >> ELSE << >>)
         \o LiveNames(Tail(es))

IsPrefix(s, t) == Len(s) <= Len(t) /\ s = SubSeq(t, 1, Len(s))

\* C10: enumerating a directory whose entries chain by nonzero rec_len up
\* to i_size yields, from begin() to the end sentinel, the names of the
\* entries whose inode is not 0, each once and in the order they lie in the
\* directory; the entries whose inode is 0 are passed over by their rec_len.
C10_EnumerationYieldsLiveNames ==
    (dir # NoDir /\ iter # NoIter) =>
        /\ IsPrefix(walk, LiveNames(image.listing))
        /\ iter.Done => walk = LiveNames(image.listing)

\* An enumeration that ended after passing a tombstone between two live
\* entries, the first of which ends four bytes before the end of a block.
C10_EnumeratedPastTombstone ==
    /\ dir # NoDir
    /\ iter # NoIter
    /\ iter.Done
    /\ Len(image.listing) = 3
    /\ image.listing[1].rec_len = 1020
    /\ image.listing[2].inode = 0
    /\ image.listing[3].inode # 0
    /\ walk = << << ChA, ChB >>, image.listing[3].name >>

-----------------------------------------------------------------------------
(* Reads of file data (SpecData): a run mounts the image and makes one     *)
(* read, ReadInode followed by ReadInodeData into a zeroed buffer.         *)

\* A data block: 1024 bytes that tell the block and the position in it.
DataBlock(b) == [ i \in 1..1024 |-> (17 * b + i) % 256 ]

\* A block of u32 block numbers: entry idx is f[idx], and 0 where f has none.
PtrBlock(f) ==
    [ i \in 1..1024 |->
        IF ((i - 1) \div 4) \in DOMAIN f THEN LE32(f[(i - 1) \div 4])[((i - 1) % 4) + 1]
        ELSE 0 ]

\* Length of the image that holds the files, in bytes (64 blocks).
FileDevSize == 64 * 1024

\* The files of the image:
\*   inode 3   300 bytes in block 22
\*   inode 4   3 blocks: 24, 25, 26
\*   inode 5   13 blocks: 30..41, and 43 through the indirect block 42
\*   inode 6   12 + 256 + 256 + 2 blocks: 44 and 45 its first and its
\*             twelfth; the indirect block 46 names 47 (entry 0) and 48
\*             (entry 255); the doubly-indirect block 49 names the indirect
\*             blocks 50 and 51, which name 52, 53, 54 (entries 0, 1, 255 of
\*             50) and 55, 56 (entries 0, 1 of 51)
FileImage(garbage) ==
    [ bgdt   |-> [ g \in 0..1 |-> [ bg_inode_table |-> 5 + g ] ],
      inodes |-> [ n \in 2..6 |->
          CASE n = 2 -> MkInode(FmtDirectory, 1024, 20)
            [] n = 3 -> MkInode(FmtRegularFile, 300, 22)
            [] n = 4 -> [ MkInode(FmtRegularFile, 3 * 1024, 24)
                            EXCEPT !.i_block[2] = 25, !.i_block[3] = 26 ]
            [] n = 5 -> [ i_mode |-> FmtRegularFile + 420, i_size |-> 13 * 1024,
                          i_block |-> [ k \in 1..15 |->
                              IF k <= 12 THEN 29 + k ELSE IF k = 13 THEN 42 ELSE 0 ] ]
            [] OTHER -> [ MkInode(FmtRegularFile, (12 + 256 + 256 + 2) * 1024, 44)
                            EXCEPT !.i_block[12] = 45, !.i_block[13] = 46,
                                   !.i_block[14] = 49 ] ],
      blocks |-> [ b \in { 22, 24, 25, 26 } \cup (30..56) |->
          CASE b = 42 -> PtrBlock(0 :> 43)
            [] b = 46 -> PtrBlock((0 :> 47) @@ (255 :> 48))
            [] b = 49 -> PtrBlock((0 :> 50) @@ (1 :> 51))
            [] b = 50 -> PtrBlock((0 :> 52) @@ (1 :> 53) @@ (255 :> 54))
            [] b = 51 -> PtrBlock((0 :> 55) @@ (1 :> 56))
            [] OTHER  -> DataBlock(b) ],
      garbage |-> garbage, bad |-> {} ]

InitData ==
    /\ devLen = FileDevSize
    /\ diskSb \in { [CleanSb EXCEPT !.s_rev_level = rev] : rev \in { GoodOldRev, DynamicRev } }
    /\ \E g \in GarbageValues : image = FileImage(g)
    /\ diskAtime = [ n \in 2..6 |-> 0 ]
    /\ clock = 1
    /\ fd = 3
    /\ drive = NoDrive
    /\ held = FALSE
    /\ dir = NoDir
    /\ iter = NoIter
    /\ last = NoLast
    /\ hist = Hist0(diskSb, devLen)
    /\ call = NoCall
    /\ walk = << >>

\* The block indexes a read starts in: around the ends of the direct, the
\* indirect and the doubly-indirect ranges and of the first page of the
\* doubly-indirect range, and around the end of the triply-indirect range.
StartBlocks ==
    LET P == PointersPerBlock([ Sb |-> CleanSb ])
        D == DIRECT_BLOCK_COUNT
    IN  { 0, 1, 2, 3, D - 2, D - 1, D, D + 1, D + P - 1,
          D + P, D + P + 1, D + P + P - 1, D + P + P, D + P + P + 1,
          D + P + P * P + P * P * P - 1, D + P + P * P + P * P * P,
          D + P + P * P + P * P * P + 1 }

\* The offsets in the block a read starts at, and the sizes read; the
\* largest size is inode 5's whole file, read from its start.
StartOffsets == { 0, 1000 }
ReadSizes == { 1, 24, 48, 1024, 2048, 3 * 1024, 13 * 1024 }

\* ReadInodeData(I, Offset, Buf, Size) on the inode ReadInode(n) returned;
\* Offset is BlockIndex * block_size + BlockOffset.
DoRead ==
    /\ held
    /\ drive # NoDrive
    /\ call = NoCall
    /\ \E n \in 3..6, bi \in StartBlocks, bo \in StartOffsets, size \in ReadSizes :
          /\ size = 13 * 1024 => (n = 5 /\ bi = 0 /\ bo = 0)
          /\ \E I \in { ReadInode(Drv, n) } :
                /\ I.ok
                /\ \E r \in { ReadInodeDataAt(Drv, I.I, bi, bo, size) } :
                      call' = [ op |-> "read", ino |-> n, I |-> I.I,
                                BlockIndex |-> bi, BlockOffset |-> bo, Size |-> size,
                                ok |-> r.ok, segs |-> r.segs,
                                data |-> Fill(Dev, Zeros(size), r.segs, 0) ]
    /\ UNCHANGED << devLen, diskSb, diskAtime, clock, fd, drive, held, dir, iter, last,
                    hist, image, walk >>

NextData ==
    \/ DoTryMount
    \/ DoRead

SpecData == InitData /\ [][NextData]_vars

\* The block of the device that holds block k of a file: i_block[k] for the
\* first 12, then the entries of the indirect block i_block[12], then those
\* of the indirect blocks the doubly-indirect block i_block[13] names, then
\* three levels below i_block[14].
MappedBlock(dev, I, k) ==
    LET bs == block_size(dev.sb)
        P  == bs \div 4
        D  == DIRECT_BLOCK_COUNT
        Entry(blk, idx) == U32At(dev, blk * bs + 4 * idx)
    IN  IF k < D THEN I.i_block[k + 1]
        ELSE IF k < D + P THEN Entry(I.i_block[INDIRECT_BLOCK_INDEX + 1], k - D)
        ELSE IF k < D + P + P * P
        THEN Entry(Entry(I.i_block[DOUBLY_INDIRECT_BLOCK_INDEX + 1], (k - D - P) \div P),
                   (k - D - P) % P)
        ELSE Entry(Entry(Entry(I.i_block[TRIPLY_INDIRECT_BLOCK_INDEX + 1],
                               (k - D - P - P * P) \div (P * P)),
                         ((k - D - P - P * P) \div P) % P),
                   (k - D - P - P * P) % P)

\* Bytes [Offset, Offset + Size) of a file's content.
LogicalBytes(dev, I, Offset, Size) ==
    [ i \in 1..Size |->
        ByteAt(dev, MappedBlock(dev, I, (Offset + i - 1) \div block_size(dev.sb))
                        * block_size(dev.sb)
                    + ((Offset + i - 1) % block_size(dev.sb))) ]

\* The read of a run lies inside the file: Offset + Size <= i_size.
ReadInsideFile ==
    /\ call.op = "read"
    /\ call.BlockIndex <= call.I.i_size \div block_size(diskSb)
    /\ call.BlockIndex * block_size(diskSb) + call.BlockOffset + call.Size <= call.I.i_size

\* C11: a read of Size bytes at Offset with Offset + Size <= i_size succeeds
\* and returns exactly bytes [Offset, Offset + Size) of the file's content,
\* the concatenation of its mapped blocks in block-index order, whether it
\* lies in one block or spans many.
C11_ReadReturnsLogicalBytes ==
    ReadInsideFile =>
        /\ call.ok
        /\ call.data = LogicalBytes(Dev, call.I,
                                    call.BlockIndex * block_size(diskSb) + call.BlockOffset,
                                    call.Size)

\* C13: a read that starts in block k of the doubly-indirect range
\* [12 + P, 12 + P + P * P) reads first from the block named by entry
\* (k - 12 - P) % P of the indirect block whose number is entry
\* (k - 12 - P) \div P of the doubly-indirect block i_block[13], whether or
\* not k is the first entry of an indirect page.
C13_DoublyIndirectBlockRead ==
    LET P == PointersPerBlock([ Sb |-> diskSb ])
        bs == block_size(diskSb)
        j == call.BlockIndex - DIRECT_BLOCK_COUNT - P
    IN  (/\ call.op = "read"
         /\ DIRECT_BLOCK_COUNT + P <= call.BlockIndex
         /\ call.BlockIndex < DIRECT_BLOCK_COUNT + P + P * P) =>
            /\ call.segs # << >>
            /\ call.segs[1].addr =
                   U32At(Dev, U32At(Dev, call.I.i_block[DOUBLY_INDIRECT_BLOCK_INDEX + 1] * bs
                                         + 4 * (j \div P)) * bs
                              + 4 * (j % P)) * bs
                   + call.BlockOffset

\* C14: a read that starts inside block 11 of a file and ends inside its
\* block 12 returns the tail of the block i_block[11] names followed by the
\* head of the block named by entry 0 of the indirect block i_block[12].
C14_StraddleDirectToIndirect ==
    LET bs == block_size(diskSb)
    IN  (/\ call.op = "read"
         /\ call.BlockIndex = DIRECT_BLOCK_COUNT - 1
         /\ call.BlockOffset + call.Size > bs
         /\ call.BlockOffset + call.Size <= 2 * bs) =>
            /\ call.ok
            /\ call.data =
                 [ i \in 1..(bs - call.BlockOffset) |->
                     ByteAt(Dev, call.I.i_block[DIRECT_BLOCK_COUNT] * bs
                                 + call.BlockOffset + i - 1) ]
                 \o [ i \in 1..(call.Size - (bs - call.BlockOffset)) |->
                        ByteAt(Dev, U32At(Dev, call.I.i_block[INDIRECT_BLOCK_INDEX + 1] * bs)
                                        * bs + i - 1) ]

\* A read of 48 bytes of inode 5 from byte 1000 of block 11: the last 24
\* bytes of block 41 and the first 24 of block 43, which the indirect block
\* 42 names.
C14_ReadAcrossBlocks11And12 ==
    /\ call.op = "read"
    /\ call.ino = 5
    /\ call.BlockIndex = DIRECT_BLOCK_COUNT - 1
    /\ call.BlockOffset = 1000
    /\ call.Size = 48
    /\ call.ok
    /\ call.data = SubSeq(DataBlock(41), 1001, 1024) \o SubSeq(DataBlock(43), 1, 24)

\* C15: a read whose offset is past i_size returns false and reads no file
\* data.
C15_ReadPastSizeFails ==
    LET bs == block_size(diskSb)
    IN  (/\ call.op = "read"
         /\ \/ call.BlockIndex > call.I.i_size \div bs
            \/ call.BlockIndex * bs + call.BlockOffset > call.I.i_size) =>
            /\ ~call.ok
            /\ call.segs = << >>

\* C20: a read whose range of blocks reaches past the last block of the
\* triply-indirect range (index 12 + P + P^2 + P^3 or more) returns false,
\* whether it starts inside the range and runs off its end or starts past it.
C20_ReadBeyondTriplyFails ==
    LET P == PointersPerBlock([ Sb |-> diskSb ])
        bs == block_size(diskSb)
    IN  (/\ call.op = "read"
         /\ call.BlockIndex + ((call.BlockOffset + call.Size - 1) \div bs)
                >= DIRECT_BLOCK_COUNT + P + P * P + P * P * P) =>
            ~call.ok

-----------------------------------------------------------------------------
(* Stat (SpecStat): runs of Stat calls on a mounted image, which is whole  *)
(* or ends where its inode table begins.                                   *)

\* Length of an image file cut off before its first inode table (block 5).
CutDevSize == 5 * 1024

\* An image cut off there holds no inode.  What a later write puts where
\* the inode table should be is the record Stat then holds: the garbage
\* ReadInode left in it.
CutImage(garbage) ==
    [ TreeImage(FALSE, FALSE, garbage) EXCEPT
        !.inodes = [ n \in 2..6 |-> [ i_mode  |-> garbage.inode.i_mode,
                                     i_size  |-> garbage.inode.i_size,
                                     i_block |-> garbage.inode.i_block ] ] ]
    @@ [ bad |-> {} ]

NoStat == [ op |-> "none", ok |-> FALSE ]

InitStat ==
    /\ devLen \in { DevSize, CutDevSize }
    /\ diskSb = CleanSb
    /\ IF devLen = DevSize
       THEN image = TreeImage(FALSE, FALSE, NoGarbage) @@ [ bad |-> {} ]
       ELSE \E g \in GarbageValues : image = CutImage(g)
    /\ diskAtime = [ n \in 2..6 |-> 0 ]
    /\ clock = 1
    /\ fd = 3
    /\ drive = NoDrive
    /\ held = FALSE
    /\ dir = NoDir
    /\ iter = NoIter
    /\ last = NoLast
    /\ hist = Hist0(diskSb, devLen)
    /\ call = NoStat
    /\ walk = << >>

\* Drive::Stat(path, origin) through the caller's pointer.  call keeps the
\* result, the inode the path names, the result of the Stat call before it,
\* and the device as it was when the call began.
StatPath ==
    /\ held
    /\ drive # NoDrive
    /\ \E c \in Calls, w \in InodeWrites :
          \E r \in { Stat(Drv, c.path, c.origin, clock, w) },
             INum \in { InodeFromPath(Drv, c.path, c.origin) } :
              /\ diskAtime' =
                     IF r.wr.wrote /\ r.wr.n >= OffAtime + 4
                     THEN [ n \in DOMAIN diskAtime |->
                              IF InodeTableOffset(Dev, n) = r.wr.Offset THEN r.atime
                              ELSE diskAtime[n] ]
                     ELSE diskAtime
              /\ devLen' = IF r.wr.wrote /\ r.wr.n > 0
                           THEN Max(devLen, r.wr.Offset + r.wr.n) ELSE devLen
              /\ call' = [ op |-> "stat", path |-> c.path, ok |-> r.ok, st |-> r.st,
                           target |-> IF INum.ok THEN INum.ino ELSE 0,
                           prev |-> IF call.op = "stat"
                                    THEN [ op |-> "stat", path |-> call.path,
                                           ok |-> call.ok, st |-> call.st ]
                                    ELSE NoStat,
                           before |-> [ devLen |-> devLen, diskSb |-> diskSb,
                                        diskAtime |-> diskAtime ] ]
    /\ UNCHANGED << diskSb, clock, fd, drive, held, dir, iter, last, hist, image, walk >>

NextStat ==
    \/ DoTryMount
    \/ Tick
    \/ StatPath

SpecStat == InitStat /\ [][NextStat]_vars

\* C12: two consecutive Stat calls on one path return records that agree
\* in every field but the access time, which does not decrease; and a Stat
\* call changes nothing on the device but the i_atime of the inode the
\* path names (the image file keeps its length, the superblock and every
\* other inode's i_atime keep their values).
C12_StatChangesOnlyAtime ==
    call.op = "stat" =>
        /\ (call.ok /\ call.prev.ok /\ call.prev.path = call.path) =>
              /\ [call.st EXCEPT !.st_atime = 0] = [call.prev.st EXCEPT !.st_atime = 0]
              /\ call.prev.st.st_atime <= call.st.st_atime
        /\ devLen = call.before.devLen
        /\ diskSb = call.before.diskSb
        /\ \A n \in DOMAIN diskAtime :
              diskAtime[n] # call.before.diskAtime[n] => n = call.target

-----------------------------------------------------------------------------
(* Scans of a damaged directory (SpecScan): the loop of                    *)
(* FindDirectoryEntry and the passes of Dir::Iterator::operator++, one     *)
(* iteration at a time, over directories that may end in an entry with     *)
(* rec_len 0, hold tombstones, or lie in blocks that cannot be read.       *)

\* The entries of a damaged directory: a live entry, a tombstone, a live
\* entry that ends four bytes before the end of a block, and an entry whose
\* rec_len is 0.
ScanKinds ==
    { [ inode |-> 7, rec_len |-> 12,   file_type |-> 0, name |-> << ChB >> ],
      [ inode |-> 0, rec_len |-> 12,   file_type |-> 0, name |-> << ChB, ChB >> ],
      [ inode |-> 8, rec_len |-> 1020, file_type |-> 0, name |-> << ChA, ChB >> ],
      [ inode |-> 7, rec_len |-> 0,    file_type |-> 0, name |-> << ChA >> ] }

\* Directories of at most n entries; an entry with rec_len 0 has none after
\* it that a scan could reach.
ScanLists(n) ==
    { es \in UNION { [ 1..k -> ScanKinds ] : k \in 1..n } :
        \A i \in 1..(Len(es) - 1) : es[i].rec_len # 0 }

\* The image whose root directory holds the entries es in the blocks 24,
\* 25; i_size is the size of the blocks, and the bytes after the last entry
\* are zeros.
ScanImage(es, bad) ==
    LET bytes == EncodeDir(es)
        nblk  == Max(1, (Len(bytes) + 1023) \div 1024)
    IN  [ bgdt   |-> [ g \in 0..1 |-> [ bg_inode_table |-> 5 + g ] ],
          inodes |-> [ n \in 2..6 |->
                         IF n = 2
                         THEN [ i_mode |-> FmtDirectory + 493, i_size |-> 1024 * nblk,
                                i_block |-> [ k \in 1..15 |->
                                                IF k <= nblk THEN 23 + k ELSE 0 ] ]
                         ELSE MkInode(FmtUnknown, 0, 0) ],
          blocks |-> [ b \in 24..(23 + nblk) |->
                         SubSeq(bytes, 1024 * (b - 24) + 1,
                                Min(Len(bytes), 1024 * (b - 23))) ],
          garbage |-> NoGarbage, bad |-> bad, listing |-> es ]

InitScan ==
    /\ devLen = DevSize
    /\ diskSb = CleanSb
    /\ \E es \in ScanLists(MaxEntries), bad \in { {}, { 24 }, { 25 } } :
          image = ScanImage(es, bad)
    /\ diskAtime = [ n \in 2..6 |-> 0 ]
    /\ clock = 1
    /\ fd = 3
    /\ drive = NoDrive
    /\ held = FALSE
    /\ dir = NoDir
    /\ iter = NoIter
    /\ last = NoLast
    /\ hist = Hist0(diskSb, devLen)
    /\ call = NoCall
    /\ walk = << >>

\* A loop of FindDirectoryEntry that goes on whatever rec_len is.
FindLoopBodyNoBreak(d, I, Name, Offset) ==
    IF ~(Offset < I.i_size) THEN [ res |-> "none", H |-> ZeroHdr, Offset |-> Offset ] ELSE
    Bind(ReadInodeData(d, I, Offset, SizeofHdr), LAMBDA rh :
    IF ~rh.ok THEN [ res |-> "none", H |-> ZeroHdr, Offset |-> Offset ] ELSE
    Bind(DecodeHdr(Fill(d.dev, Zeros(SizeofHdr), rh.segs, 0)), LAMBDA H :
    [ res |-> "loop", H |-> ZeroHdr, Offset |-> Offset + H.rec_len ]))

\* One iteration of the loop of FindDirectoryEntry, from the test of its
\* condition on: the entry is returned ("found"), the call returns nothing
\* ("none"), or the loop goes on at the next offset ("loop").
FindLoopBody(d, I, Name, Offset) ==
    IF ~(Offset < I.i_size) THEN [ res |-> "none", H |-> ZeroHdr, Offset |-> Offset ] ELSE
    Bind(ReadInodeData(d, I, Offset, SizeofHdr), LAMBDA rh :
    IF ~rh.ok THEN [ res |-> "none", H |-> ZeroHdr, Offset |-> Offset ] ELSE
    Bind(DecodeHdr(Fill(d.dev, Zeros(SizeofHdr), rh.segs, 0)), LAMBDA H :
    Bind(IF H.name_len = Len(Name)
         THEN ReadInodeData(d, I, Offset + SizeofHdr, H.name_len)
         ELSE [ ok |-> TRUE, segs |-> << >>, io |-> 0 ], LAMBDA rn :
    IF ~rn.ok THEN [ res |-> "none", H |-> ZeroHdr, Offset |-> Offset ]
    ELSE IF H.name_len = Len(Name)
            /\ Fill(d.dev, Zeros(H.name_len), rn.segs, 0) = Name
    THEN [ res |-> "found", H |-> H, Offset |-> Offset ]
    ELSE IF H.rec_len = 0 THEN [ res |-> "none", H |-> ZeroHdr, Offset |-> Offset ]
    ELSE [ res |-> "loop", H |-> ZeroHdr, Offset |-> Offset + H.rec_len ])))

\* One pass through the body of operator++; again says that the pass ended
\* in `return ++*this`.
IncrementBody(d, I, it) ==
    IF it.NextOffset >= I.i_size
    THEN [ it |-> [it EXCEPT !.Done = TRUE], again |-> FALSE ] ELSE
    Bind(ReadInodeData(d, I, it.NextOffset, SizeofHdr), LAMBDA rh :
    IF ~rh.ok THEN [ it |-> DefaultIterator, again |-> FALSE ] ELSE
    Bind(Fill(d.dev, it.Hdr, rh.segs, 0), LAMBDA hb :
    Bind(DecodeHdr(hb), LAMBDA Hdr :
    IF Hdr.rec_len = 0
    THEN [ it |-> [it EXCEPT !.Hdr = hb, !.Done = TRUE], again |-> FALSE ]
    ELSE IF Hdr.inode = 0
    THEN [ it |-> [it EXCEPT !.Hdr = hb, !.NextOffset = @ + Hdr.rec_len], again |-> TRUE ]
    ELSE
    Bind(ReadInodeData(d, I, it.NextOffset + SizeofHdr, Hdr.name_len), LAMBDA rn :
    IF ~rn.ok THEN [ it |-> DefaultIterator, again |-> FALSE ]
    ELSE [ it |-> [it EXCEPT !.Hdr = hb,
                             !.Name = Fill(d.dev, Pad(it.Name, Hdr.name_len), rn.segs, 0),
                             !.NextOffset = @ + Hdr.rec_len],
           again |-> FALSE ]))))

\* The names looked up.
ScanNames == { << ChA >>, << ChB >>, << ChB, ChB >> }

\* FindDirectoryEntry(I, Name) on the inode of the caller's Dir begins: the
\* test of the inode's format, and Offset = 0.  pass is the parity of the
\* number of iterations the loop has made.
StartFind ==
    /\ dir # NoDir
    /\ drive # NoDrive
    /\ call = NoCall
    /\ iter = NoIter
    /\ \E Name \in ScanNames :
          call' = [ op |-> "find", Name |-> Name, Offset |-> 0, H |-> ZeroHdr,
                    res |-> IF Is(dir.I, FmtDirectory) THEN "loop" ELSE "none",
                    pass |-> 0 ]
    /\ UNCHANGED << devLen, diskSb, diskAtime, clock, fd, drive, held, dir, iter, last,
                    hist, image, walk >>

\* The next iteration of the loop of the running FindDirectoryEntry.
FindStep ==
    /\ call.op = "find"
    /\ call.res = "loop"
    /\ \E r \in { FindLoopBody(Drv, dir.I, call.Name, call.Offset) } :
          call' = [call EXCEPT !.res = r.res, !.H = r.H, !.Offset = r.Offset,
                               !.pass = 1 - @]
    /\ UNCHANGED << devLen, diskSb, diskAtime, clock, fd, drive, held, dir, iter, last,
                    hist, image, walk >>

\* Dir::begin() (the constructor sets Done = false and calls operator++),
\* or ++it while it != end(): operator++ is entered.
StartIncrement ==
    /\ dir # NoDir
    /\ drive # NoDrive
    /\ call = NoCall
    /\ IF iter = NoIter
       THEN iter' = [ it |-> [DefaultIterator EXCEPT !.D = 1, !.Done = FALSE],
                      pc |-> "body", pass |-> 0 ]
       ELSE /\ iter.pc = "idle"
            /\ ~iter.it.Done
            /\ iter' = [iter EXCEPT !.pc = "body"]
    /\ UNCHANGED << devLen, diskSb, diskAtime, clock, fd, drive, held, dir, last,
                    hist, image, call, walk >>

\* One pass through the body of the running operator++; when it returns,
\* the caller takes the name of the entry the iterator stands on.
IncrementStep ==
    /\ iter # NoIter
    /\ iter.pc = "body"
    /\ \E r \in { IncrementBody(Drv, dir.I, iter.it) } :
          /\ iter' = [ it |-> r.it, pc |-> IF r.again THEN "body" ELSE "idle",
                        pass |-> 1 - iter.pass ]
          /\ walk' = IF ~r.again /\ ~r.it.Done THEN Append(walk, IteratorDeref(r.it))
                     ELSE walk
    /\ UNCHANGED << devLen, diskSb, diskAtime, clock, fd, drive, held, dir, last,
                    hist, image, call >>

NextScan ==
    \/ DoTryMount
    \/ DoOpenDir
    \/ StartFind
    \/ FindStep
    \/ StartIncrement
    \/ IncrementStep

SpecScan == InitScan /\ [][NextScan]_vars

\* The entries of a directory that lie before its entry with rec_len 0.
BeforeZero(es) ==
    IF es # << >> /\ es[Len(es)].rec_len = 0 THEN SubSeq(es, 1, Len(es) - 1) ELSE es

\* C16: an entry with rec_len 0 ends the directory for both consumers.  The
\* iterator yields the live entries before it and reports the end without
\* yielding it; FindDirectoryEntry finds no name that only the entry with
\* rec_len 0, or nothing, bears, even when that entry's name is the name
\* looked up.
C16_ZeroRecLenEndsDirectory ==
    /\ (iter # NoIter /\ iter.pc = "idle") =>
          /\ IsPrefix(walk, LiveNames(BeforeZero(image.listing)))
          /\ (iter.it.Done /\ image.bad = {}) => walk = LiveNames(BeforeZero(image.listing))
    /\ (/\ call.op = "find"
        /\ call.res # "loop"
        /\ \A i \in 1..Len(BeforeZero(image.listing)) :
              image.listing[i].name # call.Name) =>
          call.res = "none"

\* The scans under fair scheduling: a call that has begun runs on, the
\* thread that made it taking every iteration of its loop in turn.  This is
\* weak fairness of FindStep and of IncrementStep, WF_vars(FindStep) and
\* WF_vars(IncrementStep), with ENABLED written out: each of the two
\* changes the state (pass) whenever its guard holds.
SpecScanLive ==
    /\ SpecScan
    /\ \/ []<>(~(call.op = "find" /\ call.res = "loop"))
       \/ []<><<FindStep>>_vars
    /\ \/ []<>(~(iter # NoIter /\ iter.pc = "body"))
       \/ []<><<IncrementStep>>_vars

\* C18: every FindDirectoryEntry call and every advance of the iterator
\* terminates, whatever the directory holds (an entry with rec_len 0, runs
\* of tombstones, blocks that cannot be read): an iteration either ends the
\* call or goes on at a strictly larger offset, below i_size, and a call
\* that runs comes to its end.
C18_ScansTerminate ==
    /\ [][ /\ (call.op = "find" /\ call.res = "loop" /\ call'.pass # call.pass) =>
                \/ call'.res # "loop"
                \/ (call'.Offset > call.Offset /\ call.Offset < dir.I.i_size)
           /\ (iter # NoIter /\ iter.pc = "body" /\ iter'.pass # iter.pass) =>
                \/ iter'.pc = "idle"
                \/ (/\ iter'.it.NextOffset > iter.it.NextOffset
                    /\ iter.it.NextOffset < dir.I.i_size) ]_vars
    /\ (call.op = "find" /\ call.res = "loop") ~> (call.op = "find" /\ call.res # "loop")
    /\ (iter # NoIter /\ iter.pc = "body") ~> (iter # NoIter /\ iter.pc = "idle")

\* A lookup that ended with nothing found at an entry with rec_len 0, past
\* a tombstone, and an enumeration that ended there.
C18_ScanEndedAtZeroRecLen ==
    /\ Len(image.listing) = 3
    /\ image.listing[2].inode = 0
    /\ image.listing[3].rec_len = 0
    /\ image.bad = {}
    /\ \/ /\ call.op = "find"
          /\ call.res = "none"
          /\ call.Offset = image.listing[1].rec_len + image.listing[2].rec_len
       \/ /\ iter # NoIter
          /\ iter.pc = "idle"
          /\ iter.it.Done
          /\ iter.it.NextOffset = image.listing[1].rec_len + image.listing[2].rec_len

-----------------------------------------------------------------------------
(* The file format of a directory entry (SpecPath).                        *)

\* C17: on a mounted volume of either revision, the format GetFileFormat
\* gives for an entry of the root directory is the format in the i_mode of
\* the inode the entry names, whatever the entry's file_type byte holds; so
\* a resolution of "x//" succeeds exactly when the inode x names is a
\* directory.
C17_FormatFromInode ==
    /\ drive # NoDrive =>
          \A Name \in { << ChA >>, << ChB >> } :
              LET root == ReadInode(Drv, ROOT_INODE_NUMBER)
                  e    == FindDirectoryEntry(Drv, root.I, Name)
                  FF   == GetFileFormat(Drv, e.H)
                  I    == ReadInode(Drv, e.H.inode)
              IN  (root.ok /\ e.ok /\ I.ok) =>
                      /\ FF.ok
                      /\ FF.FF = (I.I.i_mode \div 4096) * 4096
    /\ (/\ call.op = "resolve"
        /\ Len(call.path) = 3
        /\ call.path[1] # SlashChar
        /\ call.path[2] = SlashChar
        /\ call.path[3] = SlashChar
        /\ StartsWithSlash(call.origin)) =>
          call.ok = NamesDirectory(Drv, << call.path[1] >>, call.origin)

-----------------------------------------------------------------------------
(* Inode offsets (SpecOffset): ComputeInodeOffset on volumes whose inode   *)
(* tables lie below and above the first 4 GiB.                             *)

\* Block numbers bg_inode_table of group 0 may hold (group 1: one more):
\* 5, 2^22, 2^22 + 5 and 2^23 + 5.
InodeTables == { 5, 2 ^ 22, 2 ^ 22 + 5, 2 ^ 23 + 5 }

InitOffset ==
    /\ devLen = DevSize
    /\ \E size \in { SizeofInode, 2 * SizeofInode }, log \in { 0, 1 } :
          diskSb = [CleanSb EXCEPT !.s_inode_size = size, !.s_log_block_size = log]
    /\ \E t \in InodeTables :
          image = [ TreeImage(FALSE, FALSE, NoGarbage) EXCEPT
                      !.bgdt = [ g \in 0..1 |-> [ bg_inode_table |-> t + g ] ] ]
                  @@ [ bad |-> {} ]
    /\ diskAtime = [ n \in 2..6 |-> 0 ]
    /\ clock = 1
    /\ fd = 3
    /\ drive = NoDrive
    /\ held = FALSE
    /\ dir = NoDir
    /\ iter = NoIter
    /\ last = NoLast
    /\ hist = Hist0(diskSb, devLen)
    /\ call = NoCall
    /\ walk = << >>

\* ComputeInodeOffset(n), as ReadInode and WriteInode begin.
ComputeOffset ==
    /\ held
    /\ drive # NoDrive
    /\ call = NoCall
    /\ \E n \in 0..(drive.Sb.s_inodes_count + 1) :
          \E r \in { ComputeInodeOffset(Drv, n) } :
              call' = [ op |-> "offset", n |-> n, ok |-> r.ok, Offset |-> r.Offset ]
    /\ UNCHANGED << devLen, diskSb, diskAtime, clock, fd, drive, held, dir, iter, last,
                    hist, image, walk >>

NextOffset ==
    \/ DoTryMount
    \/ ComputeOffset

SpecOffset == InitOffset /\ [][NextOffset]_vars

\* C19: for 1 <= n <= s_inodes_count, ComputeInodeOffset returns
\* bg_inode_table * block_size + ((n - 1) % s_inodes_per_group) * s_inode_size
\* for the descriptor of group (n - 1) \div s_inodes_per_group, at full
\* width; and it rejects n = 0 and n > s_inodes_count.
C19_InodeOffsetFullWidth ==
    call.op = "offset" =>
        IF call.n = 0 \/ call.n > diskSb.s_inodes_count THEN ~call.ok
        ELSE /\ call.ok
             /\ [ hi |-> call.Offset \div U16, lo |-> call.Offset % U16 ]
                = WideMulAdd(image.bgdt[(call.n - 1) \div diskSb.s_inodes_per_group]
                                 .bg_inode_table,
                             block_size(diskSb),
                             ((call.n - 1) % diskSb.s_inodes_per_group)
                                 * diskSb.s_inode_size)

-----------------------------------------------------------------------------
(* Name lookup and tombstones: C21, over SpecPath.                         *)

\* C21: name lookup never matches a tombstone.  FindDirectoryEntry returns
\* only entries whose inode is not 0; a resolution that succeeds gives an
\* inode number in 1..s_inodes_count; and on the tree whose directory /a
\* holds a tombstone named "b" before its live entry b, a resolution gives
\* what it gives on the same tree without the tombstone.
C21_LookupSkipsTombstones ==
    /\ drive # NoDrive =>
          \A n \in 2..6 : \A Name \in { << ChA >>, << ChB >> } :
              LET dirI == ReadInode(Drv, n)
                  e    == FindDirectoryEntry(Drv, dirI.I, Name)
              IN  (dirI.ok /\ e.ok) => e.H.inode # 0
    /\ call.op = "resolve" =>
          /\ call.ok => call.ino \in 1..drive.Sb.s_inodes_count
          /\ \A typed \in BOOLEAN :
                image = TreeImage(typed, TRUE, NoGarbage) @@ [ bad |-> {} ] =>
                    LET live == [ dev |-> [Dev EXCEPT !.img =
                                              TreeImage(typed, FALSE, NoGarbage)
                                              @@ [ bad |-> {} ]],
                                  Sb  |-> drive.Sb ]
                        r    == InodeFromPath(live, call.path, call.origin)
                    IN  /\ call.ok = r.ok
                        /\ call.ok => call.ino = r.ino

=============================================================================
